---- MODULE Spec2Model ----
(***************************************************************************)
(* Verification model of the RMD retirement-simulation code                *)
(* (src/RMDs/code, the functional rendering, and src/RMDs/src, the         *)
(* object-oriented rendering).                                             *)
(*                                                                         *)
(* Number representation.  The Python code computes in binary floating     *)
(* point; the model computes in fixed point:                               *)
(*   - money is kept in whole dollars, every product or quotient rounded   *)
(*     down (FloorDiv);                                                    *)
(*   - tax rates and market returns are whole percents;                    *)
(*   - RMD divisors are kept in tenths (26.5 is 265);                      *)
(*   - probabilities are kept in units of 1/QOne.                          *)
(***************************************************************************)
EXTENDS Integers, Naturals, Sequences, FiniteSets, TLC

VARIABLES
    rmd_call,     \* the last call of calculate_rmd, both renderings
    sim_pc,       \* position of a strategy simulation: "idle", "loop", "done"
    sim_in,       \* the arguments of the running strategy simulation
    year,         \* loop index of the strategy simulation (years done)
    acct,         \* its local balances and running totals
    snapshots,    \* YearSnapshot list (functional rendering only)
    trace,        \* per year: the amounts the step worked with
    sim_out,      \* the value returned by the strategy simulation
    survival,     \* the SurvivalModel object (max_age, q_male, q_female)
    mort_call,    \* the last death-probability lookup, both renderings
    samp,         \* the last death-age sampling call and what it returned
    law,          \* the laws of the two samplers, as last measured
    rng,          \* state of the process-wide generator np.random
    run_pc,       \* run_monte_carlo (code/): "idle", "loop", "done", "raised"
    run_in,       \* its arguments [config, n_paths, seed, verbose]
    run_gen,      \* its locals market_returns and death_ages
    run_i,        \* its loop index i
    results,      \* its result list
    run_err,      \* the exception that ended it, or "none"
    run_first,    \* what the first of two calls generated and returned
    eng_pc,       \* compare_strategies (src/): "idle", "compare", "loop", "done"
    eng_in,       \* the engine, the strategies and the keyword arguments
    eng_k,        \* compare_strategies' position in zip(strategies, names)
    eng_gen,      \* run_monte_carlo's locals death_ages and market_returns
    eng_i,        \* run_monte_carlo's loop index i
    eng_results,  \* run_monte_carlo's result list
    all_results,  \* compare_strategies' dictionary, in insertion order
    handed,       \* what each call of strategy.simulate was handed
    conc,         \* two threads calling the generators of code/ at once
    flt,          \* the loop of run_monte_carlo (code/) in binary64 arithmetic
    lam           \* one invocation of lambda_handler (week03) and its table

rmdVars == <<rmd_call>>
simVars == <<sim_pc, sim_in, year, acct, snapshots, trace, sim_out>>
objVars == <<survival>>
mortVars == <<mort_call>>
sampVars == <<samp, law>>
rngVars == <<rng>>
runVars == <<run_pc, run_in, run_gen, run_i, results, run_err, run_first>>
engVars == <<eng_pc, eng_in, eng_k, eng_gen, eng_i, eng_results, all_results,
             handed>>
concVars == <<conc>>
fltVars == <<flt>>
lamVars == <<lam>>
vars == <<rmd_call, sim_pc, sim_in, year, acct, snapshots, trace, sim_out,
          survival, mort_call, samp, law,
          rng, run_pc, run_in, run_gen, run_i, results, run_err, run_first,
          eng_pc, eng_in, eng_k, eng_gen, eng_i, eng_results, all_results,
          handed, conc, flt, lam>>

\* what the actions of each specification leave alone
rmdOthers == <<simVars, objVars, mortVars, sampVars, rngVars, runVars, engVars,
               concVars, fltVars, lamVars>>
stratOthers == <<rmdVars, objVars, mortVars, sampVars, rngVars, runVars, engVars,
                 concVars, fltVars, lamVars>>
mortOthers == <<rmdVars, simVars, objVars, sampVars, rngVars, runVars, engVars,
                concVars, fltVars, lamVars>>
sampOthers == <<rmdVars, simVars, objVars, mortVars, rngVars, runVars, engVars,
                concVars, fltVars, lamVars>>
runOthers == <<rmdVars, simVars, objVars, mortVars, sampVars, engVars, concVars,
               fltVars, lamVars>>
engOthers == <<rmdVars, simVars, objVars, mortVars, sampVars, runVars, concVars,
               fltVars, lamVars>>
concOthers == <<rmdVars, simVars, objVars, mortVars, sampVars, runVars, engVars,
                fltVars, lamVars>>
fltOthers == <<rmdVars, simVars, objVars, mortVars, sampVars, rngVars, runVars,
               engVars, concVars, lamVars>>
lamOthers == <<rmdVars, simVars, objVars, mortVars, sampVars, rngVars, runVars,
               engVars, concVars, fltVars>>

----------------------------------------------------------------------------
(* Fixed-point helpers *)

\* x / d of the Python code, in whole units, rounded down (d > 0)
FloorDiv(x, d) == x \div d

\* x * (1 + r) for a return of r percent
Grow(x, r) == FloorDiv(x * (100 + r), 100)

\* x * rate for a rate of rate percent
Pct(x, rate) == FloorDiv(x * rate, 100)

Min(a, b) == IF a <= b THEN a ELSE b

\* scale of the RMD divisors: a divisor d is kept as d * DivisorScale
DivisorScale == 10

----------------------------------------------------------------------------
(* code/tax_strategies.py and src/tax_strategies.py : the RMD schedule *)

\* IRS Uniform Lifetime Table, ages 72..120, in tenths
RMD_DIVISORS ==
    [a \in 72..120 |->
        << 274, 265, 255, 246, 237,
           229, 220, 211, 202, 194,
           185, 177, 168, 160, 152,
           144, 137, 129, 122, 115,
           108, 101,  95,  89,  84,
            78,  73,  68,  64,  60,
            56,  52,  49,  46,  43,
            41,  39,  37,  35,  34,
            33,  31,  30,  29,  28,
            27,  25,  23,  20 >>[a - 71]]

\* the age below which calculate_rmd returns 0 (hard-coded in both renderings)
RMD_AGE == 73

\* the divisor returned for ages beyond the table
TERMINAL_DIVISOR == 20

\* a plausible slip: no divisor returned for the ages beyond the table
get_rmd_divisor_table_only(age) ==
    IF age < 72 THEN 0
    ELSE IF age \in DOMAIN RMD_DIVISORS THEN RMD_DIVISORS[age]
    ELSE 0

\* get_rmd_divisor(age) of code/tax_strategies.py
get_rmd_divisor(age) ==
    IF age < 72 THEN 0
    ELSE IF age \in DOMAIN RMD_DIVISORS THEN RMD_DIVISORS[age]
    ELSE IF age > 120 THEN TERMINAL_DIVISOR
    ELSE TERMINAL_DIVISOR

\* a plausible slip: the RMD age taken from the first row of the table (72)
calculate_rmd_from72(ira_balance, age) ==
    IF age < 72 THEN 0
    ELSE LET divisor == get_rmd_divisor(age)
         IN IF divisor <= 0 THEN ira_balance
            ELSE FloorDiv(ira_balance * DivisorScale, divisor)

\* calculate_rmd(ira_balance, age) of code/tax_strategies.py
calculate_rmd(ira_balance, age) ==
    IF age < RMD_AGE THEN 0
    ELSE LET divisor == get_rmd_divisor(age)
         IN IF divisor <= 0 THEN ira_balance
            ELSE FloorDiv(ira_balance * DivisorScale, divisor)

\* calculate_rmd(ira_balance, age) of src/tax_strategies.py
oo_calculate_rmd(ira_balance, age) ==
    IF age < RMD_AGE THEN 0
    ELSE LET divisor == IF age \in DOMAIN RMD_DIVISORS
                        THEN RMD_DIVISORS[age] ELSE TERMINAL_DIVISOR
         IN IF divisor > 0 THEN FloorDiv(ira_balance * DivisorScale, divisor)
            ELSE ira_balance

----------------------------------------------------------------------------
(* code/tax_strategies.py and src/tax_strategies.py : the strategies.       *)
(* p is the argument record of a simulation, s the local state             *)
(* [ira, roth, taxable, basis, total_taxes, total_rmds] before the year,    *)
(* y the loop index (0-based).                                              *)

\* a plausible slip: past the end of the sequence the last return is reused
ReturnAt_last_reused(market_returns, y) ==
    IF y < Len(market_returns) THEN market_returns[y + 1]
    ELSE IF Len(market_returns) > 0 THEN market_returns[Len(market_returns)]
    ELSE 0

\* market_returns[year] if year < len(market_returns) else 0.0
ReturnAt(market_returns, y) ==
    IF y < Len(market_returns) THEN market_returns[y + 1] ELSE 0

\* a plausible slip: the snapshot numbered with the 0-based loop index
hold_year_index0(p, s, y) ==
    LET age == p.start_age + y + 1
        market_return == ReturnAt(p.market_returns, y)
        ira1 == Grow(s.ira, market_return)
        taxable1 == Grow(s.taxable, market_return)
        rmd == calculate_rmd(ira1, age)
        taxes == IF rmd > 0 THEN Pct(rmd, p.tax_bracket) ELSE 0
        ira2 == IF rmd > 0 THEN ira1 - rmd ELSE ira1
    IN [acct |-> [ira |-> ira2, roth |-> s.roth, taxable |-> taxable1,
                  basis |-> s.basis,
                  total_taxes |-> s.total_taxes + taxes,
                  total_rmds |-> IF rmd > 0 THEN s.total_rmds + rmd
                                 ELSE s.total_rmds],
        snap |-> [year |-> y, age |-> age, ira_balance |-> ira2,
                  taxable_balance |-> taxable1, taxable_basis |-> s.basis,
                  rmd_taken |-> rmd, taxes_paid |-> taxes,
                  market_return |-> market_return],
        tr |-> [age |-> age, grown |-> ira1, converted |-> 0,
                rmd_base |-> ira1, rmd |-> rmd]]

\* one iteration of the loop of simulate_hold_to_death (code/)
hold_year(p, s, y) ==
    LET age == p.start_age + y + 1
        market_return == ReturnAt(p.market_returns, y)
        ira1 == Grow(s.ira, market_return)
        taxable1 == Grow(s.taxable, market_return)
        rmd == calculate_rmd(ira1, age)
        taxes == IF rmd > 0 THEN Pct(rmd, p.tax_bracket) ELSE 0
        ira2 == IF rmd > 0 THEN ira1 - rmd ELSE ira1
    IN [acct |-> [ira |-> ira2, roth |-> s.roth, taxable |-> taxable1,
                  basis |-> s.basis,
                  total_taxes |-> s.total_taxes + taxes,
                  total_rmds |-> IF rmd > 0 THEN s.total_rmds + rmd
                                 ELSE s.total_rmds],
        snap |-> [year |-> y + 1, age |-> age, ira_balance |-> ira2,
                  taxable_balance |-> taxable1, taxable_basis |-> s.basis,
                  rmd_taken |-> rmd, taxes_paid |-> taxes,
                  market_return |-> market_return],
        tr |-> [age |-> age, grown |-> ira1, converted |-> 0,
                rmd_base |-> ira1, rmd |-> rmd]]

\* a plausible slip: the distribution computed on the balance before growth
oo_hold_year_rmd_pre_growth(p, s, y) ==
    LET age == p.start_age + y + 1
        ret == ReturnAt(p.market_returns, y)
        ira1 == Grow(s.ira, ret)
        taxable1 == Grow(s.taxable, ret)
        rmd == oo_calculate_rmd(s.ira, age)
    IN [acct |-> [ira |-> IF rmd > 0 THEN ira1 - rmd ELSE ira1,
                  roth |-> s.roth, taxable |-> taxable1, basis |-> s.basis,
                  total_taxes |-> IF rmd > 0
                                  THEN s.total_taxes + Pct(rmd, p.tax_bracket)
                                  ELSE s.total_taxes,
                  total_rmds |-> IF rmd > 0 THEN s.total_rmds + rmd
                                 ELSE s.total_rmds],
        tr |-> [age |-> age, grown |-> ira1, converted |-> 0,
                rmd_base |-> ira1, rmd |-> rmd]]

\* one iteration of the loop of HoldToDeathStrategy.simulate (src/)
oo_hold_year(p, s, y) ==
    LET age == p.start_age + y + 1
        ret == ReturnAt(p.market_returns, y)
        ira1 == Grow(s.ira, ret)
        taxable1 == Grow(s.taxable, ret)
        rmd == oo_calculate_rmd(ira1, age)
    IN [acct |-> [ira |-> IF rmd > 0 THEN ira1 - rmd ELSE ira1,
                  roth |-> s.roth, taxable |-> taxable1, basis |-> s.basis,
                  total_taxes |-> IF rmd > 0
                                  THEN s.total_taxes + Pct(rmd, p.tax_bracket)
                                  ELSE s.total_taxes,
                  total_rmds |-> IF rmd > 0 THEN s.total_rmds + rmd
                                 ELSE s.total_rmds],
        tr |-> [age |-> age, grown |-> ira1, converted |-> 0,
                rmd_base |-> ira1, rmd |-> rmd]]

\* a plausible slip: the required distribution taken before the conversion
agg_year_rmd_first(p, s, y) ==
    LET age == p.start_age + y + 1
        market_return == ReturnAt(p.market_returns, y)
        ira1 == Grow(s.ira, market_return)
        roth1 == Grow(s.roth, market_return)
        taxable1 == Grow(s.taxable, market_return)
        rmd == calculate_rmd(ira1, age)
        rmd_tax == IF rmd > 0 THEN Pct(rmd, p.tax_bracket) ELSE 0
        ira2 == IF rmd > 0 THEN ira1 - rmd ELSE ira1
        converts == age <= p.conversion_end_age /\ ira2 > 0
        convert_amount == IF converts THEN Min(p.annual_conversion, ira2) ELSE 0
        conversion_tax == IF converts THEN Pct(convert_amount, p.tax_bracket)
                          ELSE 0
        ira3 == ira2 - convert_amount
        roth2 == roth1 + convert_amount
    IN [acct |-> [ira |-> ira3, roth |-> roth2, taxable |-> taxable1,
                  basis |-> s.basis,
                  total_taxes |-> s.total_taxes + conversion_tax + rmd_tax,
                  total_rmds |-> IF rmd > 0 THEN s.total_rmds + rmd
                                 ELSE s.total_rmds],
        snap |-> [year |-> y + 1, age |-> age, ira_balance |-> ira3 + roth2,
                  taxable_balance |-> taxable1, taxable_basis |-> s.basis,
                  rmd_taken |-> rmd, taxes_paid |-> conversion_tax + rmd_tax,
                  market_return |-> market_return],
        tr |-> [age |-> age, grown |-> ira1, converted |-> convert_amount,
                rmd_base |-> ira1, rmd |-> rmd]]

\* a plausible slip: the conversion tax left out of total_taxes
agg_year_conversion_untaxed(p, s, y) ==
    LET age == p.start_age + y + 1
        market_return == ReturnAt(p.market_returns, y)
        ira1 == Grow(s.ira, market_return)
        roth1 == Grow(s.roth, market_return)
        taxable1 == Grow(s.taxable, market_return)
        converts == age <= p.conversion_end_age /\ ira1 > 0
        convert_amount == IF converts THEN Min(p.annual_conversion, ira1) ELSE 0
        conversion_tax == IF converts THEN Pct(convert_amount, p.tax_bracket)
                          ELSE 0
        ira2 == ira1 - convert_amount
        roth2 == roth1 + convert_amount
        rmd == calculate_rmd(ira2, age)
        rmd_tax == IF rmd > 0 THEN Pct(rmd, p.tax_bracket) ELSE 0
        ira3 == IF rmd > 0 THEN ira2 - rmd ELSE ira2
    IN [acct |-> [ira |-> ira3, roth |-> roth2, taxable |-> taxable1,
                  basis |-> s.basis,
                  total_taxes |-> s.total_taxes + rmd_tax,
                  total_rmds |-> IF rmd > 0 THEN s.total_rmds + rmd
                                 ELSE s.total_rmds],
        snap |-> [year |-> y + 1, age |-> age, ira_balance |-> ira3 + roth2,
                  taxable_balance |-> taxable1, taxable_basis |-> s.basis,
                  rmd_taken |-> rmd, taxes_paid |-> conversion_tax + rmd_tax,
                  market_return |-> market_return],
        tr |-> [age |-> age, grown |-> ira1, converted |-> convert_amount,
                rmd_base |-> ira2, rmd |-> rmd]]

\* a plausible slip: the conversion tax paid out of the taxable account
agg_year_tax_from_taxable(p, s, y) ==
    LET age == p.start_age + y + 1
        market_return == ReturnAt(p.market_returns, y)
        ira1 == Grow(s.ira, market_return)
        roth1 == Grow(s.roth, market_return)
        taxable0 == Grow(s.taxable, market_return)
        converts == age <= p.conversion_end_age /\ ira1 > 0
        convert_amount == IF converts THEN Min(p.annual_conversion, ira1) ELSE 0
        conversion_tax == IF converts THEN Pct(convert_amount, p.tax_bracket)
                          ELSE 0
        ira2 == ira1 - convert_amount
        roth2 == roth1 + convert_amount
        rmd == calculate_rmd(ira2, age)
        rmd_tax == IF rmd > 0 THEN Pct(rmd, p.tax_bracket) ELSE 0
        ira3 == IF rmd > 0 THEN ira2 - rmd ELSE ira2
        taxable1 == taxable0 - conversion_tax
    IN [acct |-> [ira |-> ira3, roth |-> roth2, taxable |-> taxable1,
                  basis |-> s.basis,
                  total_taxes |-> s.total_taxes + conversion_tax + rmd_tax,
                  total_rmds |-> IF rmd > 0 THEN s.total_rmds + rmd
                                 ELSE s.total_rmds],
        snap |-> [year |-> y + 1, age |-> age, ira_balance |-> ira3 + roth2,
                  taxable_balance |-> taxable1, taxable_basis |-> s.basis,
                  rmd_taken |-> rmd, taxes_paid |-> conversion_tax + rmd_tax,
                  market_return |-> market_return],
        tr |-> [age |-> age, grown |-> ira1, converted |-> convert_amount,
                rmd_base |-> ira2, rmd |-> rmd]]

\* one iteration of the loop of simulate_aggressive_conversion (code/)
agg_year(p, s, y) ==
    LET age == p.start_age + y + 1
        market_return == ReturnAt(p.market_returns, y)
        ira1 == Grow(s.ira, market_return)
        roth1 == Grow(s.roth, market_return)
        taxable1 == Grow(s.taxable, market_return)
        converts == age <= p.conversion_end_age /\ ira1 > 0
        convert_amount == IF converts THEN Min(p.annual_conversion, ira1) ELSE 0
        conversion_tax == IF converts THEN Pct(convert_amount, p.tax_bracket)
                          ELSE 0
        ira2 == ira1 - convert_amount
        roth2 == roth1 + convert_amount
        rmd == calculate_rmd(ira2, age)
        rmd_tax == IF rmd > 0 THEN Pct(rmd, p.tax_bracket) ELSE 0
        ira3 == IF rmd > 0 THEN ira2 - rmd ELSE ira2
    IN [acct |-> [ira |-> ira3, roth |-> roth2, taxable |-> taxable1,
                  basis |-> s.basis,
                  total_taxes |-> s.total_taxes + conversion_tax + rmd_tax,
                  total_rmds |-> IF rmd > 0 THEN s.total_rmds + rmd
                                 ELSE s.total_rmds],
        snap |-> [year |-> y + 1, age |-> age, ira_balance |-> ira3 + roth2,
                  taxable_balance |-> taxable1, taxable_basis |-> s.basis,
                  rmd_taken |-> rmd, taxes_paid |-> conversion_tax + rmd_tax,
                  market_return |-> market_return],
        tr |-> [age |-> age, grown |-> ira1, converted |-> convert_amount,
                rmd_base |-> ira2, rmd |-> rmd]]

\* a plausible slip: annual_conversion converted whatever the balance is
oo_agg_year_whole_amount(p, s, y) ==
    LET age == p.start_age + y + 1
        ret == ReturnAt(p.market_returns, y)
        ira1 == Grow(s.ira, ret)
        roth1 == Grow(s.roth, ret)
        taxable1 == Grow(s.taxable, ret)
        converts == age <= p.conversion_end_age /\ ira1 > 0
        convert == IF converts THEN p.annual_conversion ELSE 0
        ira2 == ira1 - convert
        roth2 == roth1 + convert
        taxes1 == IF converts THEN s.total_taxes + Pct(convert, p.tax_bracket)
                  ELSE s.total_taxes
        rmd == oo_calculate_rmd(ira2, age)
    IN [acct |-> [ira |-> IF rmd > 0 THEN ira2 - rmd ELSE ira2,
                  roth |-> roth2, taxable |-> taxable1, basis |-> s.basis,
                  total_taxes |-> IF rmd > 0
                                  THEN taxes1 + Pct(rmd, p.tax_bracket)
                                  ELSE taxes1,
                  total_rmds |-> IF rmd > 0 THEN s.total_rmds + rmd
                                 ELSE s.total_rmds],
        tr |-> [age |-> age, grown |-> ira1, converted |-> convert,
                rmd_base |-> ira2, rmd |-> rmd]]

\* one iteration of the loop of AggressiveConversionStrategy.simulate (src/)
oo_agg_year(p, s, y) ==
    LET age == p.start_age + y + 1
        ret == ReturnAt(p.market_returns, y)
        ira1 == Grow(s.ira, ret)
        roth1 == Grow(s.roth, ret)
        taxable1 == Grow(s.taxable, ret)
        converts == age <= p.conversion_end_age /\ ira1 > 0
        convert == IF converts THEN Min(p.annual_conversion, ira1) ELSE 0
        ira2 == ira1 - convert
        roth2 == roth1 + convert
        taxes1 == IF converts THEN s.total_taxes + Pct(convert, p.tax_bracket)
                  ELSE s.total_taxes
        rmd == oo_calculate_rmd(ira2, age)
    IN [acct |-> [ira |-> IF rmd > 0 THEN ira2 - rmd ELSE ira2,
                  roth |-> roth2, taxable |-> taxable1, basis |-> s.basis,
                  total_taxes |-> IF rmd > 0
                                  THEN taxes1 + Pct(rmd, p.tax_bracket)
                                  ELSE taxes1,
                  total_rmds |-> IF rmd > 0 THEN s.total_rmds + rmd
                                 ELSE s.total_rmds],
        tr |-> [age |-> age, grown |-> ira1, converted |-> convert,
                rmd_base |-> ira2, rmd |-> rmd]]

\* the locals of a simulation before its loop
initial_acct(p) ==
    [ira |-> p.initial_ira, roth |-> 0, taxable |-> p.initial_taxable,
     basis |-> p.taxable_basis, total_taxes |-> 0, total_rmds |-> 0]

\* the statements after the loop: terminal wealth and step-up benefit
\* (the tax-free balance is 0 in the hold-to-death simulations)
\* a plausible slip: the step-up benefit taken out of the terminal wealth
terminal_net_of_step_up(p, s) ==
    LET ira_after_tax == Pct(s.ira, 100 - p.tax_bracket)
        unrealized_gain == s.taxable - s.basis
        step_up_benefit == Pct(unrealized_gain, p.cap_gains_rate)
    IN [terminal_wealth |-> ira_after_tax + s.roth + s.taxable
                               - step_up_benefit,
        total_taxes |-> s.total_taxes,
        total_rmds |-> s.total_rmds,
        step_up_benefit |-> step_up_benefit]

\* the terminal summary computed after the loop (both renderings)
terminal(p, s) ==
    LET ira_after_tax == Pct(s.ira, 100 - p.tax_bracket)
        unrealized_gain == s.taxable - s.basis
        step_up_benefit == Pct(unrealized_gain, p.cap_gains_rate)
    IN [terminal_wealth |-> ira_after_tax + s.roth + s.taxable,
        total_taxes |-> s.total_taxes,
        total_rmds |-> s.total_rmds,
        step_up_benefit |-> step_up_benefit]

\* the loop body a simulation runs, by rendering and strategy
year_step(p, s, y) ==
    IF p.impl = "code"
    THEN (IF p.strategy = "hold_to_death" THEN hold_year(p, s, y)
          ELSE agg_year(p, s, y))
    ELSE (IF p.strategy = "hold_to_death" THEN oo_hold_year(p, s, y)
          ELSE oo_agg_year(p, s, y))

----------------------------------------------------------------------------
(* code/ssa_life_tables.py and src/survival_analysis.py : mortality.        *)
(* The tables are kept in millionths as written in the source; a            *)
(* probability is kept in units of 1/QOne = 1/(QScale * 10^6), which makes  *)
(* every interpolated value exact (the gaps between tabulated ages are 4    *)
(* or 5 years).                                                             *)

\* units of probability per millionth
QScale == 20

\* probability 1.0
QOne == 20000000

\* SSA_DEATH_PROBABILITY of code/ssa_life_tables.py: age :> <<male, female>>
SSA_DEATH_PROBABILITY ==
    0 :> <<6064, 5119>> @@ 1 :> <<491, 398>> @@ 2 :> <<309, 240>> @@
    3 :> <<248, 198>> @@ 4 :> <<199, 160>> @@ 5 :> <<167, 134>> @@
    10 :> <<127, 111>> @@ 15 :> <<451, 224>> @@ 20 :> <<1301, 496>> @@
    25 :> <<1776, 699>> @@ 30 :> <<2332, 988>> @@ 35 :> <<2791, 1324>> @@
    40 :> <<3353, 1803>> @@ 45 :> <<4175, 2352>> @@ 50 :> <<5666, 3407>> @@
    55 :> <<8348, 5040>> @@ 60 :> <<12458, 7658>> @@ 65 :> <<17897, 11018>> @@
    66 :> <<19017, 11743>> @@ 67 :> <<20213, 12532>> @@ 68 :> <<21569, 13512>> @@
    69 :> <<23088, 14684>> @@ 70 :> <<24828, 16025>> @@ 71 :> <<26705, 17468>> @@
    72 :> <<28761, 19195>> @@ 73 :> <<31116, 21195>> @@ 74 :> <<33861, 23452>> @@
    75 :> <<37088, 25980>> @@ 76 :> <<41126, 29153>> @@ 77 :> <<45241, 32394>> @@
    78 :> <<49793, 35888>> @@ 79 :> <<54768, 39676>> @@ 80 :> <<60660, 44156>> @@
    81 :> <<67027, 49087>> @@ 82 :> <<73999, 54635>> @@ 83 :> <<81737, 61066>> @@
    84 :> <<90458, 68431>> @@ 85 :> <<100525, 76841>> @@ 86 :> <<111793, 86205>> @@
    87 :> <<124494, 96851>> @@ 88 :> <<138398, 109019>> @@ 89 :> <<153207, 121867>> @@
    90 :> <<169704, 135805>> @@ 91 :> <<187963, 151108>> @@ 92 :> <<208395, 168020>> @@
    93 :> <<230808, 186340>> @@ 94 :> <<253914, 206432>> @@ 95 :> <<277402, 228086>> @@
    96 :> <<300882, 250406>> @@ 97 :> <<324326, 273699>> @@ 98 :> <<347332, 296984>> @@
    99 :> <<369430, 319502>> @@ 100 :> <<391927, 342716>> @@ 105 :> <<508032, 466891>> @@
    110 :> <<648392, 624805>> @@ 115 :> <<827531, 827531>> @@ 119 :> <<1000000, 1000000>>

\* SSA_DEATH_PROBABILITY of src/survival_analysis.py (no rows for 2, 3, 4)
OO_SSA_DEATH_PROBABILITY ==
    0 :> <<6064, 5119>> @@ 1 :> <<491, 398>> @@ 5 :> <<167, 134>> @@
    10 :> <<127, 111>> @@ 15 :> <<451, 224>> @@ 20 :> <<1301, 496>> @@
    25 :> <<1776, 699>> @@ 30 :> <<2332, 988>> @@ 35 :> <<2791, 1324>> @@
    40 :> <<3353, 1803>> @@ 45 :> <<4175, 2352>> @@ 50 :> <<5666, 3407>> @@
    55 :> <<8348, 5040>> @@ 60 :> <<12458, 7658>> @@ 65 :> <<17897, 11018>> @@
    66 :> <<19017, 11743>> @@ 67 :> <<20213, 12532>> @@ 68 :> <<21569, 13512>> @@
    69 :> <<23088, 14684>> @@ 70 :> <<24828, 16025>> @@ 71 :> <<26705, 17468>> @@
    72 :> <<28761, 19195>> @@ 73 :> <<31116, 21195>> @@ 74 :> <<33861, 23452>> @@
    75 :> <<37088, 25980>> @@ 76 :> <<41126, 29153>> @@ 77 :> <<45241, 32394>> @@
    78 :> <<49793, 35888>> @@ 79 :> <<54768, 39676>> @@ 80 :> <<60660, 44156>> @@
    81 :> <<67027, 49087>> @@ 82 :> <<73999, 54635>> @@ 83 :> <<81737, 61066>> @@
    84 :> <<90458, 68431>> @@ 85 :> <<100525, 76841>> @@ 86 :> <<111793, 86205>> @@
    87 :> <<124494, 96851>> @@ 88 :> <<138398, 109019>> @@ 89 :> <<153207, 121867>> @@
    90 :> <<169704, 135805>> @@ 91 :> <<187963, 151108>> @@ 92 :> <<208395, 168020>> @@
    93 :> <<230808, 186340>> @@ 94 :> <<253914, 206432>> @@ 95 :> <<277402, 228086>> @@
    96 :> <<300882, 250406>> @@ 97 :> <<324326, 273699>> @@ 98 :> <<347332, 296984>> @@
    99 :> <<369430, 319502>> @@ 100 :> <<391927, 342716>> @@ 105 :> <<508032, 466891>> @@
    110 :> <<648392, 624805>> @@ 115 :> <<827531, 827531>> @@ 119 :> <<1000000, 1000000>>

SetMin(S) == CHOOSE x \in S : \A y \in S : x <= y

SetMax(S) == CHOOSE x \in S : \A y \in S : x >= y

\* 0 if gender.upper() == 'M' else 1 (tuples are 1-based here)
GenderIdx(gender) == IF gender = "M" THEN 1 ELSE 2

\* (k / d) * x for the fraction frac = k / d of the interpolation
FracMul(k, d, x) == FloorDiv(k * x, d)

\* the bracketing rows found by `for i, a in enumerate(ages): if a > age`:
\* upper is the first tabulated age above age, lower is ages[i-1] (which is
\* the last row of the table when i = 0)
Bracket(ages, age) ==
    LET above == {a \in ages : a > age}
        upper == SetMin(above)
        below == {a \in ages : a < upper}
    IN [found |-> above # {},
        upper |-> IF above = {} THEN 0 ELSE upper,
        lower |-> IF above = {} THEN 0
                  ELSE IF below = {} THEN SetMax(ages) ELSE SetMax(below)]

\* a plausible slip: the gender columns swapped
get_death_probability_swapped(age, gender) ==
    LET idx == IF gender = "M" THEN 2 ELSE 1
        ages == DOMAIN SSA_DEATH_PROBABILITY
        b == Bracket(ages, age)
    IN IF age \in ages THEN SSA_DEATH_PROBABILITY[age][idx] * QScale
       ELSE IF b.found
       THEN LET lower_prob == SSA_DEATH_PROBABILITY[b.lower][idx] * QScale
                upper_prob == SSA_DEATH_PROBABILITY[b.upper][idx] * QScale
            IN lower_prob + FracMul(age - b.lower, b.upper - b.lower,
                                    upper_prob - lower_prob)
       ELSE QOne

\* get_death_probability(age, gender) of code/ssa_life_tables.py
get_death_probability(age, gender) ==
    LET idx == GenderIdx(gender)
        ages == DOMAIN SSA_DEATH_PROBABILITY
        b == Bracket(ages, age)
    IN IF age \in ages THEN SSA_DEATH_PROBABILITY[age][idx] * QScale
       ELSE IF b.found
       THEN LET lower_prob == SSA_DEATH_PROBABILITY[b.lower][idx] * QScale
                upper_prob == SSA_DEATH_PROBABILITY[b.upper][idx] * QScale
            IN lower_prob + FracMul(age - b.lower, b.upper - b.lower,
                                    upper_prob - lower_prob)
       ELSE QOne

\* the entry SurvivalModel._build_mortality_table stores for one age and
\* one column of the table
build_entry(age, idx) ==
    LET ages == DOMAIN OO_SSA_DEATH_PROBABILITY
        b == Bracket(ages, age)
    IN IF age \in ages THEN OO_SSA_DEATH_PROBABILITY[age][idx] * QScale
       ELSE IF b.found
       THEN FracMul((b.upper - b.lower) - (age - b.lower), b.upper - b.lower,
                    OO_SSA_DEATH_PROBABILITY[b.lower][idx] * QScale)
            + FracMul(age - b.lower, b.upper - b.lower,
                      OO_SSA_DEATH_PROBABILITY[b.upper][idx] * QScale)
       ELSE QOne

\* SurvivalModel(max_age): __init__ followed by _build_mortality_table
SurvivalModel(max_age) ==
    [max_age |-> max_age,
     q_male |-> [age \in 0..max_age |-> build_entry(age, 1)],
     q_female |-> [age \in 0..max_age |-> build_entry(age, 2)]]

\* q_table.get(age, 1.0)
q_get(q_table, age) == IF age \in DOMAIN q_table THEN q_table[age] ELSE QOne

\* SurvivalModel.get_death_probability(age, gender)
oo_get_death_probability(self, age, gender) ==
    q_get(IF gender = "M" THEN self.q_male ELSE self.q_female, age)

----------------------------------------------------------------------------
(* code/simulation_engine.py and src/survival_analysis.py : the samplers.   *)
(* A uniform draw of np.random.random() is a value u in 0..QOne-1 standing  *)
(* for u / QOne in [0, 1); draws is the stream of draws the call consumes,  *)
(* pos the number of draws consumed so far.                                 *)

Max(a, b) == IF a >= b THEN a ELSE b

\* a * b of two probabilities, rounded down to the unit 1/QOne; the product
\* is formed in parts (a = a1 * 5000 + a0) to stay within 32-bit integers
QMul(a, b) ==
    LET a1 == a \div 5000
        a0 == a % 5000
        b1 == b \div 5000
        b0 == b % 5000
        hi == a1 * b1
        mid == a1 * b0 + a0 * b1
        lo == (a0 * b0) \div 5000
    IN 5 * (hi \div 4) + (((hi % 4) * 5000 + mid + lo) \div 4000)

\* a plausible slip: a death recorded at the age after the one drawn for
RECURSIVE seq_walk_next_age(_, _, _, _, _)
seq_walk_next_age(age, max_age, gender, draws, pos) ==
    IF age < max_age
    THEN IF draws[pos + 1] < get_death_probability(age, gender)
         THEN [age |-> age + 1, used |-> pos + 1]
         ELSE seq_walk_next_age(age + 1, max_age, gender, draws, pos + 1)
    ELSE [age |-> max_age, used |-> pos]

\* the `while age < max_age` walk of one sample of sample_death_ages (code/)
RECURSIVE seq_walk(_, _, _, _, _)
seq_walk(age, max_age, gender, draws, pos) ==
    IF age < max_age
    THEN IF draws[pos + 1] < get_death_probability(age, gender)
         THEN [age |-> age, used |-> pos + 1]
         ELSE seq_walk(age + 1, max_age, gender, draws, pos + 1)
    ELSE [age |-> max_age, used |-> pos]

\* the `for i in range(n_samples)` loop of sample_death_ages (code/), from
\* sample i on, death_ages being the samples already stored
RECURSIVE seq_samples(_, _, _, _, _, _, _)
seq_samples(i, death_ages, current_age, n_samples, gender, max_age, st) ==
    IF i >= n_samples THEN [death_ages |-> death_ages, used |-> st.pos]
    ELSE LET w == seq_walk(current_age, max_age, gender, st.draws, st.pos)
         IN seq_samples(i + 1, Append(death_ages, w.age), current_age,
                        n_samples, gender, max_age,
                        [draws |-> st.draws, pos |-> w.used])

\* sample_death_ages(current_age, n_samples, gender, max_age) of
\* code/simulation_engine.py, drawing from the stream draws
sample_death_ages(current_age, n_samples, gender, max_age, draws) ==
    seq_samples(0, <<>>, current_age, n_samples, gender, max_age,
                [draws |-> draws, pos |-> 0])

\* the walk of one sample of SurvivalModel.sample_death_ages (src/)
RECURSIVE oo_seq_walk(_, _, _, _, _)
oo_seq_walk(age, max_age, q_table, draws, pos) ==
    IF age < max_age
    THEN IF draws[pos + 1] < q_get(q_table, age)
         THEN [age |-> age, used |-> pos + 1]
         ELSE oo_seq_walk(age + 1, max_age, q_table, draws, pos + 1)
    ELSE [age |-> max_age, used |-> pos]

RECURSIVE oo_seq_samples(_, _, _, _, _, _)
oo_seq_samples(i, death_ages, self, current_age, n_samples, st) ==
    IF i >= n_samples THEN [death_ages |-> death_ages, used |-> st.pos]
    ELSE LET w == oo_seq_walk(current_age, self.max_age, st.q_table,
                              st.draws, st.pos)
         IN oo_seq_samples(i + 1, Append(death_ages, w.age), self,
                           current_age, n_samples,
                           [draws |-> st.draws, pos |-> w.used,
                            q_table |-> st.q_table])

\* SurvivalModel.sample_death_ages(current_age, n_samples, gender)
oo_sample_death_ages(self, current_age, n_samples, gender, draws) ==
    oo_seq_samples(0, <<>>, self, current_age, n_samples,
                   [draws |-> draws, pos |-> 0,
                    q_table |-> IF gender = "M" THEN self.q_male
                                ELSE self.q_female])

\* survival_probs of sample_death_ages_vectorized: one entry per age of
\* np.arange(current_age, max_age + 1), built left to right
RECURSIVE survival_curve(_, _, _, _)
survival_curve(sp, current_age, max_age, gender) ==
    LET n == Max(0, max_age + 1 - current_age)
        i == Len(sp)
    IN IF i >= n THEN sp
       ELSE IF i = 0
       THEN survival_curve(<<QOne>>, current_age, max_age, gender)
       ELSE survival_curve(
                Append(sp, QMul(sp[i],
                    QOne - get_death_probability(current_age + i - 1, gender))),
                current_age, max_age, gender)

\* death_cdf = 1 - survival_probs
death_cdf(current_age, max_age, gender) ==
    LET sp == survival_curve(<<>>, current_age, max_age, gender)
    IN [i \in 1..Len(sp) |-> QOne - sp[i]]

\* np.searchsorted(a, v) (side 'left') on a sorted array: the 0-based
\* insertion index, i.e. the number of entries below v
searchsorted(a, v) == Cardinality({i \in 1..Len(a) : a[i] < v})

\* a plausible slip: the two bounds applied in the other order
clip_lower_last(x, a_min, a_max) == Max(Min(x, a_max), a_min)

\* np.clip(x, a_min, a_max) = minimum(maximum(x, a_min), a_max)
clip(x, a_min, a_max) == Min(Max(x, a_min), a_max)

\* a plausible slip: the np.clip line left out
sample_death_ages_vectorized_noclip(current_age, n_samples, gender, max_age, draws) ==
    LET cdf == death_cdf(current_age, max_age, gender)
    IN [death_ages |-> [i \in 1..n_samples |->
                           searchsorted(cdf, draws[i]) + current_age],
        used |-> n_samples]

\* sample_death_ages_vectorized(current_age, n_samples, gender, max_age) of
\* code/simulation_engine.py, drawing from the stream draws
sample_death_ages_vectorized(current_age, n_samples, gender, max_age, draws) ==
    LET cdf == death_cdf(current_age, max_age, gender)
    IN [death_ages |-> [i \in 1..n_samples |->
                           clip(searchsorted(cdf, draws[i]) + current_age,
                                current_age, max_age)],
        used |-> n_samples]

----------------------------------------------------------------------------
(* The law of each sampler over uniform draws on [0, 1): the probability,   *)
(* in units of 1/QOne, that one sample equals the age a.                    *)

\* the probability that the walk of seq_walk passes every age in
\* current_age..a-1 alive: each draw is >= q_x with probability 1 - q_x
RECURSIVE survive_to(_, _, _)
survive_to(current_age, a, gender) ==
    IF a <= current_age THEN QOne
    ELSE QMul(survive_to(current_age, a - 1, gender),
              QOne - get_death_probability(a - 1, gender))

\* sample_death_ages: a < max_age is returned when the walk reaches a alive
\* and the draw at a is below q_a; max_age is returned when the walk passes
\* every age below max_age alive
seq_law(current_age, max_age, gender, a) ==
    IF a < current_age \/ a > max_age THEN 0
    ELSE IF a < max_age
    THEN QMul(survive_to(current_age, a, gender),
              get_death_probability(a, gender))
    ELSE survive_to(current_age, max_age, gender)

\* the measure of the draws u for which np.searchsorted(cdf, u) is i:
\* those with cdf[i-1] < u <= cdf[i] (0-based), u ranging over [0, 1)
idx_measure(cdf, i) ==
    IF i = 0 THEN cdf[1]
    ELSE IF i < Len(cdf) THEN cdf[i + 1] - cdf[i]
    ELSE QOne - cdf[Len(cdf)]

RECURSIVE vec_law_from(_, _, _, _, _)
vec_law_from(i, cdf, current_age, max_age, a) ==
    IF i > Len(cdf) THEN 0
    ELSE (IF clip(i + current_age, current_age, max_age) = a
          THEN idx_measure(cdf, i) ELSE 0)
         + vec_law_from(i + 1, cdf, current_age, max_age, a)

\* sample_death_ages_vectorized: the measure of the draws whose clipped
\* insertion index is a - current_age
vec_law(current_age, max_age, gender, a) ==
    vec_law_from(0, death_cdf(current_age, max_age, gender),
                 current_age, max_age, a)

----------------------------------------------------------------------------
(* The process-wide generator np.random.  Its state is one of RngMod        *)
(* values; seeding sets the state from the seed alone, every draw advances  *)
(* the state and its output is a function of the new state.                 *)

\* number of states of the modelled generator
RngMod == 16

\* np.random.seed(seed)
rng_seed(seed) == (7 * seed + 3) % RngMod

\* the state after one draw
rng_next(x) == (5 * x + 1) % RngMod

\* the state after n draws
RECURSIVE rng_advance(_, _)
rng_advance(x, n) == IF n <= 0 THEN x ELSE rng_advance(rng_next(x), n - 1)

\* the raw outputs of the next n draws from state x
RECURSIVE rng_outputs(_, _)
rng_outputs(x, n) ==
    IF n <= 0 THEN <<>> ELSE <<rng_next(x)>> \o rng_outputs(rng_next(x), n - 1)

\* np.random.random(): the output as a uniform value in [0, 1)
uniform(out) == out * (QOne \div RngMod)

\* np.random.standard_normal(): the output as a (quantised) normal deviate
standard_normal(out) == (out % 5) - 2

\* the seed argument None (seeds are non-negative integers)
None == -1

\* `if seed is not None: np.random.seed(seed)`
seeded(rng0, seed) == IF seed # None THEN rng_seed(seed) ELSE rng0

----------------------------------------------------------------------------
(* code/simulation_engine.py and src/market_simulation.py : market paths.   *)
(* mu, sigma, log-returns and returns are whole percents; a price level is  *)
(* kept in percents of 1.0.                                                 *)

\* exp(x), x in percent, as a price level in percent (series to 4th order)
exp_pct(x) ==
    100 + x + FloorDiv(x * x, 200) + FloorDiv(x * x * x, 60000)
        + FloorDiv(x * x * x * x, 24000000)

\* (mu - 0.5 * sigma**2) * dt + sigma * sqrt(dt) * Z, dt = 1
log_return(mu, sigma, z) == (mu - FloorDiv(sigma * sigma, 200)) + sigma * z

\* np.cumsum along one row
RECURSIVE cumsum(_)
cumsum(row) ==
    IF Len(row) = 0 THEN <<>>
    ELSE LET front == cumsum(SubSeq(row, 1, Len(row) - 1))
         IN Append(front, (IF Len(front) = 0 THEN 0 ELSE front[Len(front)])
                          + row[Len(row)])

\* a plausible slip: the seed argument ignored by simulate_gbm_paths
simulate_gbm_paths_unseeded(S0, mu, sigma, T, n_paths, seed, rng0) ==
    LET r == rng0
    IN IF T < 0 \/ n_paths < 0
       THEN [rng |-> r, err |-> "ValueError", paths |-> <<>>]
       ELSE LET outs == rng_outputs(r, n_paths * T)
                row(i) == cumsum([t \in 1..T |->
                             log_return(mu, sigma,
                                 standard_normal(outs[(i - 1) * T + t]))])
            IN [rng |-> rng_advance(r, n_paths * T), err |-> "none",
                paths |-> [i \in 1..n_paths |->
                              <<S0>> \o [t \in 1..T |->
                                  FloorDiv(S0 * exp_pct(row(i)[t]), 100)]]]

\* simulate_gbm_paths(S0, mu, sigma, T, n_paths, seed) of
\* code/simulation_engine.py, run on the generator state rng0; a negative
\* dimension makes np.random.standard_normal raise ValueError
simulate_gbm_paths(S0, mu, sigma, T, n_paths, seed, rng0) ==
    LET r == seeded(rng0, seed)
    IN IF T < 0 \/ n_paths < 0
       THEN [rng |-> r, err |-> "ValueError", paths |-> <<>>]
       ELSE LET outs == rng_outputs(r, n_paths * T)
                row(i) == cumsum([t \in 1..T |->
                             log_return(mu, sigma,
                                 standard_normal(outs[(i - 1) * T + t]))])
            IN [rng |-> rng_advance(r, n_paths * T), err |-> "none",
                paths |-> [i \in 1..n_paths |->
                              <<S0>> \o [t \in 1..T |->
                                  FloorDiv(S0 * exp_pct(row(i)[t]), 100)]]]

\* paths[:, 1:] / paths[:, :-1] - 1
annual_returns(paths) ==
    [i \in 1..Len(paths) |->
        [t \in 1..(Len(paths[i]) - 1) |->
            FloorDiv(paths[i][t + 1] * 100, paths[i][t]) - 100]]

\* MarketSimulator.simulate_returns(n_years, n_paths, seed) of
\* src/market_simulation.py, self being [mu, sigma]
simulate_returns(self, n_years, n_paths, seed, rng0) ==
    LET r == seeded(rng0, seed)
    IN IF n_years < 0 \/ n_paths < 0
       THEN [rng |-> r, err |-> "ValueError", returns |-> <<>>]
       ELSE LET outs == rng_outputs(r, n_paths * n_years)
            IN [rng |-> rng_advance(r, n_paths * n_years), err |-> "none",
                returns |-> [i \in 1..n_paths |-> [t \in 1..n_years |->
                    exp_pct(log_return(self.mu, self.sigma,
                        standard_normal(outs[(i - 1) * n_years + t]))) - 100]]]

----------------------------------------------------------------------------
(* The samplers run on the generator state: they seed it when a seed is     *)
(* given, draw from it, and leave it advanced by the draws they consumed.   *)

\* sample_death_ages_vectorized(..., seed) on the generator state rng0
rng_sample_death_ages_vectorized(current_age, n_samples, gender, max_age, seed, rng0) ==
    LET r == seeded(rng0, seed)
        outs == rng_outputs(r, n_samples)
        draws == [k \in 1..Len(outs) |-> uniform(outs[k])]
        res == sample_death_ages_vectorized(current_age, n_samples, gender,
                                            max_age, draws)
    IN [rng |-> rng_advance(r, res.used), death_ages |-> res.death_ages]

\* sample_death_ages(..., seed) of code/simulation_engine.py on the generator
\* state rng0
rng_sample_death_ages(current_age, n_samples, gender, max_age, seed, rng0) ==
    LET r == seeded(rng0, seed)
        outs == rng_outputs(r, n_samples * Max(0, max_age - current_age))
        draws == [k \in 1..Len(outs) |-> uniform(outs[k])]
        res == sample_death_ages(current_age, n_samples, gender, max_age, draws)
    IN [rng |-> rng_advance(r, res.used), death_ages |-> res.death_ages]

\* SurvivalModel.sample_death_ages(..., seed) on the generator state rng0
rng_oo_sample_death_ages(self, current_age, n_samples, gender, seed, rng0) ==
    LET r == seeded(rng0, seed)
        outs == rng_outputs(r, n_samples * Max(0, self.max_age - current_age))
        draws == [k \in 1..Len(outs) |-> uniform(outs[k])]
        res == oo_sample_death_ages(self, current_age, n_samples, gender, draws)
    IN [rng |-> rng_advance(r, res.used), death_ages |-> res.death_ages]

----------------------------------------------------------------------------
(* A whole strategy simulation, as the orchestrators call it.               *)

RECURSIVE run_years(_, _, _)
run_years(p, s, y) ==
    IF y < p.death_age - p.start_age
    THEN run_years(p, year_step(p, s, y).acct, y + 1)
    ELSE s

\* simulate_hold_to_death / simulate_aggressive_conversion /
\* TaxStrategy.simulate: the loop run to its end, then the terminal summary
simulate(p) == terminal(p, run_years(p, initial_acct(p), 0))

----------------------------------------------------------------------------
(* code/run_simulation.py : run_monte_carlo.                                *)

\* lines 66-92: the market paths, the returns, the death ages and the
\* progress printing (death_ages.min() raises ValueError on an empty array)
generate(a, rng0) ==
    LET c == a.config
        max_years == c.max_age - c.start_age
        g == simulate_gbm_paths(100, c.mu, c.sigma, max_years, a.n_paths,
                                a.seed, rng0)
        d == rng_sample_death_ages_vectorized(c.start_age, a.n_paths,
                 c.gender, c.max_age, a.seed + 1, g.rng)
    IN IF g.err # "none"
       THEN [rng |-> g.rng, err |-> g.err,
             market_returns |-> <<>>, death_ages |-> <<>>]
       ELSE [rng |-> d.rng,
             err |-> IF a.verbose /\ a.n_paths = 0 THEN "ValueError"
                     ELSE "none",
             market_returns |-> annual_returns(g.paths),
             death_ages |-> d.death_ages]

\* the keyword arguments run_monte_carlo passes to a strategy function; what
\* it does not pass keeps the function's default
strategy_args(c, strategy, death_age, returns) ==
    [impl |-> "code", strategy |-> strategy,
     initial_ira |-> c.initial_ira, initial_taxable |-> c.initial_taxable,
     taxable_basis |-> c.taxable_basis, start_age |-> c.start_age,
     death_age |-> death_age, market_returns |-> returns,
     tax_bracket |-> c.tax_bracket, cap_gains_rate |-> c.cap_gains_rate,
     rmd_start_age |-> 73, annual_conversion |-> 100000,
     conversion_end_age |-> 72]

\* a plausible slip: the path id of the second record counted from 1
result_record_from1(c, strategy, i, death_age, returns) ==
    LET out == simulate(strategy_args(c, strategy, death_age, returns))
    IN [path_id |-> IF strategy = "hold_to_death" THEN i ELSE i + 1,
        strategy |-> strategy,
        death_age |-> death_age,
        years_lived |-> death_age - c.start_age,
        terminal_wealth |-> out.terminal_wealth,
        total_taxes_paid |-> out.total_taxes,
        total_rmd_withdrawals |-> out.total_rmds,
        step_up_benefit |-> out.step_up_benefit]

\* the dictionary appended for trial i (0-based) and one strategy
result_record(c, strategy, i, death_age, returns) ==
    LET out == simulate(strategy_args(c, strategy, death_age, returns))
    IN [path_id |-> i,
        strategy |-> strategy,
        death_age |-> death_age,
        years_lived |-> death_age - c.start_age,
        terminal_wealth |-> out.terminal_wealth,
        total_taxes_paid |-> out.total_taxes,
        total_rmd_withdrawals |-> out.total_rmds,
        step_up_benefit |-> out.step_up_benefit]

----------------------------------------------------------------------------
(* Specification SpecRmd: calculate_rmd applied to every input of a bounded *)
(* set, in both renderings.                                                 *)

\* the balances handed to calculate_rmd
RmdBalances == {-265, 0, 1, 26, 27, 1000, 500000, 1000000}

\* the oldest age handed to calculate_rmd (the table ends at 120)
MaxRmdAge == 123

\* the youngest age handed to calculate_rmd
MinRmdAge == 60

\* no strategy simulation is running
NoSim == [impl |-> "none"]

IdleSim ==
    /\ sim_pc = "idle"
    /\ sim_in = NoSim
    /\ year = 0
    /\ acct = [ira |-> 0, roth |-> 0, taxable |-> 0, basis |-> 0,
               total_taxes |-> 0, total_rmds |-> 0]
    /\ snapshots = <<>>
    /\ trace = <<>>
    /\ sim_out = [terminal_wealth |-> 0, total_taxes |-> 0, total_rmds |-> 0,
                  step_up_benefit |-> 0]

\* no SurvivalModel has been constructed
NoSurvival == [max_age |-> -1, q_male |-> <<>>, q_female |-> <<>>]

NoLookup == [age |-> 0, gender |-> "M", code |-> 0, src |-> 0, made |-> FALSE]

NoSample == [sampler |-> "none"]

NoLaw == [measured |-> FALSE]

IdleMort == survival = NoSurvival /\ mort_call = NoLookup

IdleSamp == samp = NoSample /\ law = NoLaw

NoRun == [n_paths |-> 0]

NoGen == [market_returns |-> <<>>, death_ages |-> <<>>]

NoFirst == [called |-> FALSE, rng |-> 0]

\* run_monte_carlo (code/) has not been called
NoRunCall ==
    /\ run_pc = "idle"
    /\ run_in = NoRun
    /\ run_gen = NoGen
    /\ run_i = 0
    /\ results = <<>>
    /\ run_err = "none"
    /\ run_first = NoFirst

\* compare_strategies (src/) has not been called
IdleEngine ==
    /\ eng_pc = "idle"
    /\ eng_in = NoRun
    /\ eng_k = 0
    /\ eng_gen = NoGen
    /\ eng_i = 0
    /\ eng_results = <<>>
    /\ all_results = <<>>
    /\ handed = <<>>

\* no thread has been started
NoConc ==
    [started |-> FALSE, market_seed |-> None, death_seed |-> None,
     n_paths |-> 0, T |-> 0, current_age |-> 0, n_samples |-> 0,
     max_age |-> 0, gender |-> "M",
     market_pc |-> "idle", paths |-> <<>>,
     death_pc |-> "idle", i |-> 0, age |-> 0, death_ages |-> <<>>]

\* the loop of run_monte_carlo has not been entered
NoFloatRun ==
    [pc |-> "idle", config |-> [start_age |-> 0], n_paths |-> 0,
     death_ages |-> <<>>, market_returns |-> <<>>, i |-> 0, results |-> <<>>]

\* lambda_handler has not been invoked
NoInvocation == [pc |-> "idle"]

IdleElsewhere == conc = NoConc /\ flt = NoFloatRun /\ lam = NoInvocation

IdleRun == rng = 0 /\ NoRunCall /\ IdleEngine /\ IdleElsewhere

\* the parts a specification does not use stay idle
IdleButRmd == IdleSim /\ IdleMort /\ IdleSamp /\ IdleRun

NoRmdCall ==
    [balance |-> 0, age |-> 0, divisor |-> 0, code |-> 0, src |-> 0,
     made |-> FALSE]

IdleButSim == rmd_call = NoRmdCall /\ IdleMort /\ IdleSamp /\ IdleRun

InitRmd == rmd_call = NoRmdCall /\ IdleButRmd

CallCalculateRmd ==
    /\ ~rmd_call.made
    /\ \E b \in RmdBalances, age \in MinRmdAge..MaxRmdAge :
          rmd_call' = [balance |-> b, age |-> age,
                       divisor |-> get_rmd_divisor(age),
                       code |-> calculate_rmd(b, age),
                       src |-> oo_calculate_rmd(b, age),
                       made |-> TRUE]
    /\ UNCHANGED rmdOthers

NextRmd == CallCalculateRmd

SpecRmd == InitRmd /\ [][NextRmd]_vars

\* the divisor the schedule assigns to an age at or above the RMD age:
\* the table's row, or the terminal divisor beyond the table
ScheduleDivisor(age) ==
    IF age \in DOMAIN RMD_DIVISORS THEN RMD_DIVISORS[age] ELSE TERMINAL_DIVISOR

\* r is balance / divisor in whole dollars, rounded down
IsQuotient(r, balance, divisor) ==
    /\ r * divisor <= balance * DivisorScale
    /\ balance * DivisorScale < (r + 1) * divisor

\* C10: calculate_rmd returns 0 for every age below 73 (age 72 included,
\* although the table has a row for 72) and balance / divisor(age) for every
\* age from 73 on, divisor(73) being 26.5, so that
\* calculate_rmd(1000000, 73) is 1000000 / 26.5 (37735 in whole dollars);
\* the two renderings return the same amount for every (balance, age).
C10_CalculateRmd ==
    rmd_call.made =>
        /\ rmd_call.age < 73 => rmd_call.code = 0
        /\ rmd_call.age >= 73 =>
              IsQuotient(rmd_call.code, rmd_call.balance,
                         ScheduleDivisor(rmd_call.age))
        /\ RMD_DIVISORS[73] = 265
        /\ (rmd_call.age = 73 /\ rmd_call.balance = 1000000)
              => rmd_call.code = 37735
        /\ rmd_call.src = rmd_call.code

\* C10 witness: calculate_rmd was called at age 72 with a positive balance
\* and returned 0
C10_Witness ==
    /\ rmd_call.made
    /\ rmd_call.age = 72
    /\ rmd_call.balance = 1000000
    /\ rmd_call.code = 0
    /\ rmd_call.src = 0

----------------------------------------------------------------------------
(* Specification SpecStrat: one strategy simulation, run year by year, for  *)
(* each rendering, each strategy and every argument of a bounded set.       *)

\* the largest number of simulated years and of supplied returns
MaxYears == 3

\* ages at which a simulation starts (the RMD age 73 is reached in the run)
StartAges == {70, 71, 72}

\* yearly returns, in percent
ReturnValues == {-50, 0, 10}

\* the return sequences of length 0..n
RECURSIVE ReturnSeqs(_)
ReturnSeqs(n) ==
    IF n = 0 THEN {<<>>}
    ELSE LET shorter == ReturnSeqs(n - 1)
         IN shorter \cup
            {Append(q, r) : q \in {x \in shorter : Len(x) = n - 1},
                            r \in ReturnValues}

\* the argument records of the simulations one entry point is run on:
\* rmd_start_age is a parameter of simulate_hold_to_death (code/) only, the
\* conversion parameters belong to the aggressive-conversion strategy only;
\* elsewhere they keep the defaults
SimInputs(impl, strategy) ==
    { [impl |-> impl, strategy |-> strategy,
       initial_ira |-> ira, initial_taxable |-> 500000,
       taxable_basis |-> 200000,
       start_age |-> sa, death_age |-> sa + yrs, market_returns |-> mr,
       tax_bracket |-> 24, cap_gains_rate |-> 15,
       rmd_start_age |-> rsa,
       annual_conversion |-> ac, conversion_end_age |-> cea] :
         ira \in {0, 1000000}, sa \in StartAges,
         yrs \in (-1)..MaxYears, mr \in ReturnSeqs(MaxYears),
         rsa \in (IF impl = "code" /\ strategy = "hold_to_death"
                  THEN {72, 73, 75} ELSE {73}),
         ac \in (IF strategy = "aggressive_conversion"
                 THEN {100000, 1000000, 1200000} ELSE {100000}),
         cea \in (IF strategy = "aggressive_conversion"
                  THEN {72, 73} ELSE {72}) }

InitStrat == IdleSim /\ IdleButSim

\* the call: the statements before the loop
StartSim ==
    /\ sim_pc = "idle"
    /\ \E impl \in {"code", "src"},
          strategy \in {"hold_to_death", "aggressive_conversion"} :
       \E p \in SimInputs(impl, strategy) :
          /\ sim_in' = p
          /\ acct' = initial_acct(p)
    /\ sim_pc' = "loop"
    /\ year' = 0
    /\ snapshots' = <<>>
    /\ trace' = <<>>
    /\ UNCHANGED <<sim_out, stratOthers>>

\* one iteration of `for year in range(years_to_simulate)`
YearStep ==
    /\ sim_pc = "loop"
    /\ year < sim_in.death_age - sim_in.start_age
    /\ LET step == year_step(sim_in, acct, year)
       IN /\ acct' = step.acct
          /\ trace' = Append(trace, step.tr)
          /\ snapshots' = IF sim_in.impl = "code"
                          THEN Append(snapshots, step.snap)
                          ELSE snapshots
    /\ year' = year + 1
    /\ UNCHANGED <<sim_pc, sim_in, sim_out, stratOthers>>

\* the loop is exhausted: the terminal summary is computed and returned
FinishSim ==
    /\ sim_pc = "loop"
    /\ ~(year < sim_in.death_age - sim_in.start_age)
    /\ sim_out' = terminal(sim_in, acct)
    /\ sim_pc' = "done"
    /\ UNCHANGED <<sim_in, year, acct, snapshots, trace, stratOthers>>

NextStrat == StartSim \/ YearStep \/ FinishSim

SpecStrat == InitStrat /\ [][NextStrat]_vars

\* the case C8 is about: an aggressive-conversion simulation has returned,
\* its yearly conversion covered the initial balance, the conversion window
\* reached past start_age, and at least one year was lived
C8_Case ==
    /\ sim_pc = "done"
    /\ sim_in.strategy = "aggressive_conversion"
    /\ sim_in.annual_conversion >= sim_in.initial_ira
    /\ sim_in.conversion_end_age >= sim_in.start_age + 1
    /\ sim_in.death_age > sim_in.start_age

\* no year took a required distribution and the tax-deferred balance is 0
C8_AllConverted ==
    /\ acct.total_rmds = 0
    /\ sim_out.total_rmds = 0
    /\ acct.ira = 0
    /\ \A k \in 1..Len(trace) : trace[k].rmd = 0 /\ trace[k].rmd_base = 0

\* C8 as stated: with annual_conversion >= the initial tax-deferred balance
\* and conversion_end_age >= start_age + 1, for every death_age > start_age
\* and every return sequence the whole balance is converted before any
\* required distribution is due (total required withdrawals 0, tax-deferred
\* balance 0 at the horizon).
C8_Original == C8_Case => C8_AllConverted

\* C8 amended: the same, provided the initial balance is not negative and
\* the balance after the first year's growth (initial x (1 + first applied
\* return)) does not exceed annual_conversion.
C8_Amended ==
    ( /\ C8_Case
      /\ sim_in.initial_ira >= 0
      /\ Grow(sim_in.initial_ira, ReturnAt(sim_in.market_returns, 0))
            <= sim_in.annual_conversion )
    => C8_AllConverted

\* C8 witness: a positive balance was wholly converted in the first year (the
\* conversion amount equal to the balance), ages 73 and 74 were lived with a
\* positive return, and no required distribution was taken
C8_Witness ==
    /\ C8_Case
    /\ sim_in.initial_ira = 1000000
    /\ sim_in.annual_conversion = 1000000
    /\ sim_in.market_returns = <<0, 10, 10>>
    /\ sim_in.start_age = 71
    /\ sim_in.death_age = 74
    /\ trace[1].converted = 1000000
    /\ acct.roth = 1210000
    /\ C8_AllConverted

\* C9 as stated: the required distributions begin at the configured
\* rmd_start_age R: no year whose age is below R takes a distribution, and
\* every year whose age is at or above R takes balance / divisor(age) from a
\* positive tax-deferred balance.
C9_ConfiguredRmdAge ==
    \A k \in 1..Len(trace) :
        /\ trace[k].age < sim_in.rmd_start_age => trace[k].rmd = 0
        /\ (trace[k].age >= sim_in.rmd_start_age /\ trace[k].rmd_base > 0)
              => IsQuotient(trace[k].rmd, trace[k].rmd_base,
                            ScheduleDivisor(trace[k].age))

----------------------------------------------------------------------------
(* Specification SpecMort: the two death-probability lookups applied to     *)
(* every age and gender, on a SurvivalModel built for one of several        *)
(* max_age values.                                                          *)

\* the max_age values a SurvivalModel is constructed with
ModelMaxAges == {100, 119, 121}

\* the oldest age looked up (the tables end at 119)
MaxLookupAge == 122

Genders == {"M", "F"}

InitMort ==
    /\ survival \in {SurvivalModel(m) : m \in ModelMaxAges}
    /\ mort_call = NoLookup
    /\ rmd_call = NoRmdCall /\ IdleSim /\ IdleSamp /\ IdleRun

Lookup ==
    /\ ~mort_call.made
    /\ \E age \in 0..MaxLookupAge, gender \in Genders :
          mort_call' = [age |-> age, gender |-> gender,
                        code |-> get_death_probability(age, gender),
                        src |-> oo_get_death_probability(survival, age, gender),
                        made |-> TRUE]
    /\ UNCHANGED mortOthers

NextMort == Lookup

SpecMort == InitMort /\ [][NextMort]_vars

\* C5: for every age in [0, max_age] and each gender, the death probability
\* returned by get_death_probability (functional) and by
\* SurvivalModel.get_death_probability (densified table) lies in [0, 1], and
\* at every age that has a row in the sparse table it equals that row's
\* value exactly.
C5_ProbabilityRange ==
    (mort_call.made /\ mort_call.age <= survival.max_age) =>
        LET idx == GenderIdx(mort_call.gender)
        IN /\ 0 <= mort_call.code /\ mort_call.code <= QOne
           /\ 0 <= mort_call.src /\ mort_call.src <= QOne
           /\ mort_call.age \in DOMAIN SSA_DEATH_PROBABILITY =>
                 mort_call.code
                    = SSA_DEATH_PROBABILITY[mort_call.age][idx] * QScale
           /\ mort_call.age \in DOMAIN OO_SSA_DEATH_PROBABILITY =>
                 mort_call.src
                    = OO_SSA_DEATH_PROBABILITY[mort_call.age][idx] * QScale

\* C5 witness: the tabulated age 65 was looked up for a woman and both
\* lookups returned the table's 0.011018
C5_Witness ==
    /\ mort_call.made
    /\ mort_call.age = 65
    /\ mort_call.gender = "F"
    /\ mort_call.age <= survival.max_age
    /\ mort_call.code = 220360
    /\ mort_call.src = 220360

----------------------------------------------------------------------------
(* Specification SpecSample: each death-age sampler called once more, with  *)
(* every stream of uniform draws over a set of representative values.       *)

\* the longest walk max_age - current_age of a sampling call
MaxWalk == 2

\* the largest n_samples of a sampling call
MaxSamples == 2

\* the most uniform draws one call of a sequential sampler may consume
MaxDraws == 4

\* representative uniform draws: 0.0, 0.05 and the largest value below 1.0
DrawValues == {0, 1000000, QOne - 1}

\* starting ages of the functional samplers
SampleAges == {65, 99, 103, 117}

\* the max_age values of the SurvivalModel used for sampling
SampleModelMaxAges == {100, 119}

\* the draw streams of length k
DrawStreams(k) == [1..k -> DrawValues]

InitSample ==
    /\ survival \in {SurvivalModel(m) : m \in SampleModelMaxAges}
    /\ samp = NoSample
    /\ law = NoLaw
    /\ mort_call = NoLookup
    /\ rmd_call = NoRmdCall /\ IdleSim /\ IdleRun

\* a call of sample_death_ages (code/)
SampleSequential ==
    /\ samp = NoSample
    /\ \E current_age \in SampleAges, gender \in Genders,
          n_samples \in 1..MaxSamples :
       \E max_age \in {m \in (current_age - 1)..(current_age + MaxWalk) :
                          n_samples * Max(0, m - current_age) <= MaxDraws} :
       \E draws \in DrawStreams(n_samples * Max(0, max_age - current_age)) :
          LET r == sample_death_ages(current_age, n_samples, gender,
                                     max_age, draws)
          IN samp' = [sampler |-> "sequential", current_age |-> current_age,
                      max_age |-> max_age, gender |-> gender,
                      n_samples |-> n_samples, draws |-> draws,
                      death_ages |-> r.death_ages, used |-> r.used]
    /\ UNCHANGED <<law, sampOthers>>

\* a call of SurvivalModel.sample_death_ages (src/)
SampleSequentialOO ==
    /\ samp = NoSample
    /\ \E gender \in Genders, n_samples \in 1..MaxSamples :
       \E current_age \in
             {a \in (survival.max_age - MaxWalk)..(survival.max_age + 1) :
                 n_samples * Max(0, survival.max_age - a) <= MaxDraws} :
       \E draws \in DrawStreams(n_samples
                                * Max(0, survival.max_age - current_age)) :
          LET r == oo_sample_death_ages(survival, current_age, n_samples,
                                        gender, draws)
          IN samp' = [sampler |-> "oo_sequential",
                      current_age |-> current_age,
                      max_age |-> survival.max_age, gender |-> gender,
                      n_samples |-> n_samples, draws |-> draws,
                      death_ages |-> r.death_ages, used |-> r.used]
    /\ UNCHANGED <<law, sampOthers>>

\* a call of sample_death_ages_vectorized (code/)
SampleVectorized ==
    /\ samp = NoSample
    /\ \E current_age \in SampleAges, gender \in Genders,
          n_samples \in 1..MaxSamples :
       \E max_age \in (current_age - 1)..(current_age + MaxWalk) :
       \E draws \in DrawStreams(n_samples) :
          LET r == sample_death_ages_vectorized(current_age, n_samples,
                                                gender, max_age, draws)
          IN samp' = [sampler |-> "vectorized", current_age |-> current_age,
                      max_age |-> max_age, gender |-> gender,
                      n_samples |-> n_samples, draws |-> draws,
                      death_ages |-> r.death_ages, used |-> r.used]
    /\ UNCHANGED <<law, sampOthers>>

NextSample == SampleSequential \/ SampleSequentialOO \/ SampleVectorized

SpecSample == InitSample /\ [][NextSample]_vars

\* C6: for start_age <= max_age, every age returned by the sequential
\* samplers (functional and SurvivalModel) and by the inverse-transform
\* sampler lies in [start_age, max_age], whatever the uniform draws.
C6_SampleRange ==
    (samp.sampler # "none" /\ samp.current_age <= samp.max_age) =>
        /\ Len(samp.death_ages) = samp.n_samples
        /\ \A i \in 1..samp.n_samples :
              /\ samp.death_ages[i] \in Int
              /\ samp.current_age <= samp.death_ages[i]
              /\ samp.death_ages[i] <= samp.max_age

\* C6 witness: the inverse-transform sampler drew a value above the whole
\* CDF (index past the array, clipped to max_age) and the value 0.0
C6_Witness ==
    /\ samp.sampler = "vectorized"
    /\ samp.current_age = 65
    /\ samp.max_age = 67
    /\ samp.draws = <<QOne - 1, 0>>
    /\ samp.death_ages = <<67, 65>>

----------------------------------------------------------------------------
(* Specification SpecLaw: the laws of the sequential and of the             *)
(* inverse-transform sampler measured for one (start_age, max_age, gender,  *)
(* age).                                                                    *)

\* the largest max_age - start_age of a measured law
MaxLawSpan == 4

\* start ages of the measured laws
LawAges == {65, 70, 99, 103, 117}

\* the two laws may differ by the rounding of the fixed-point products
LawTolerance == 2

InitLaw ==
    /\ law = NoLaw
    /\ samp = NoSample
    /\ IdleMort
    /\ rmd_call = NoRmdCall /\ IdleSim /\ IdleRun

MeasureLaw ==
    /\ ~law.measured
    /\ \E current_age \in LawAges, gender \in Genders :
       \E max_age \in current_age..(current_age + MaxLawSpan) :
       \E a \in current_age..max_age :
          law' = [measured |-> TRUE, current_age |-> current_age,
                  max_age |-> max_age, gender |-> gender, age |-> a,
                  seq |-> seq_law(current_age, max_age, gender, a),
                  vec |-> vec_law(current_age, max_age, gender, a)]
    /\ UNCHANGED <<samp, sampOthers>>

NextLaw == MeasureLaw

SpecLaw == InitLaw /\ [][NextLaw]_vars

\* C7: for every start_age <= max_age, gender and age a in
\* [start_age, max_age], the probability that the sequential sampler returns
\* a equals the probability that the inverse-transform sampler returns a
\* (up to the rounding of the products).
C7_SameLaw ==
    law.measured =>
        /\ law.seq - law.vec <= LawTolerance
        /\ law.vec - law.seq <= LawTolerance

----------------------------------------------------------------------------
(* Specification SpecRun: run_monte_carlo of code/run_simulation.py called  *)
(* on an arbitrary generator state, other draws of the process, and a       *)
(* second call with the same arguments.                                     *)

\* the largest n_paths
MaxPaths == 2

\* SimulationConfig with the given fields, the rest as in the dataclass
Config(start_age, max_age, gender, tax_bracket, cap_gains_rate, sigma) ==
    [initial_ira |-> 1000000, initial_taxable |-> 500000,
     taxable_basis |-> 200000, start_age |-> start_age, gender |-> gender,
     tax_bracket |-> tax_bracket, cap_gains_rate |-> cap_gains_rate,
     rmd_start_age |-> 73, max_age |-> max_age, mu |-> 7, sigma |-> sigma]

\* configurations the validation rules accept
ValidConfigs ==
    {Config(sa, 100, g, 24, 15, sg) :
        sa \in {97, 98}, g \in Genders, sg \in {0, 16}}

\* configurations that break one validation rule each
InvalidConfigs ==
    {Config(100, 100, "M", 24, 15, 16), Config(101, 100, "M", 24, 15, 16),
     Config(98, 100, "M", 150, 15, 16), Config(98, 100, "M", -10, 15, 16),
     Config(98, 100, "M", 24, 120, 16), Config(98, 100, "M", 24, -5, 16),
     Config(98, 100, "M", 24, 15, -16)}

RunInputs ==
    [config : ValidConfigs \cup InvalidConfigs, n_paths : -1..MaxPaths,
     seed : {0, 42}, verbose : BOOLEAN]

\* the validation rules of the specification's error-handling section
IsValidRun(a) ==
    /\ a.config.start_age < a.config.max_age
    /\ a.config.tax_bracket \in 0..100
    /\ a.config.cap_gains_rate \in 0..100
    /\ a.config.sigma >= 0
    /\ a.n_paths > 0

InitRun ==
    /\ rng \in 0..(RngMod - 1)
    /\ NoRunCall
    /\ rmd_call = NoRmdCall /\ IdleSim /\ IdleMort /\ IdleSamp /\ IdleEngine
    /\ IdleElsewhere

\* the statements of a call up to the loop
Enter(a) ==
    LET g == generate(a, rng)
    IN /\ rng' = g.rng
       /\ run_gen' = [market_returns |-> g.market_returns,
                      death_ages |-> g.death_ages]
       /\ run_err' = g.err
       /\ run_pc' = IF g.err = "none" THEN "loop" ELSE "raised"
       /\ run_i' = 0
       /\ results' = <<>>

\* run_monte_carlo is called
CallRun ==
    /\ run_pc = "idle"
    /\ \E a \in RunInputs : run_in' = a /\ Enter(a)
    /\ run_first' = [called |-> FALSE, rng |-> rng]
    /\ UNCHANGED runOthers

\* one iteration of `for i in range(n_paths)`: both strategies are run on
\* death_ages[i] and market_returns[i, :] and their records appended
RunTrial ==
    /\ run_pc = "loop"
    /\ run_i < run_in.n_paths
    /\ LET death_age == run_gen.death_ages[run_i + 1]
           returns == run_gen.market_returns[run_i + 1]
       IN results' = results \o
            << result_record(run_in.config, "hold_to_death", run_i,
                             death_age, returns),
               result_record(run_in.config, "aggressive_conversion", run_i,
                             death_age, returns) >>
    /\ run_i' = run_i + 1
    /\ UNCHANGED <<rng, run_pc, run_in, run_gen, run_err, run_first, runOthers>>

\* the loop is exhausted: `return results`
RunReturn ==
    /\ run_pc = "loop"
    /\ ~(run_i < run_in.n_paths)
    /\ run_pc' = "done"
    /\ UNCHANGED <<rng, run_in, run_gen, run_i, results, run_err, run_first,
                   runOthers>>

\* some other code of the process draws from np.random between the calls
OtherDraw ==
    /\ run_pc = "done"
    /\ ~run_first.called
    /\ rng' = rng_next(rng)
    /\ UNCHANGED <<run_pc, run_in, run_gen, run_i, results, run_err, run_first,
                   runOthers>>

\* run_monte_carlo is called again with the same arguments
CallAgain ==
    /\ run_pc = "done"
    /\ ~run_first.called
    /\ run_first' = [called |-> TRUE, rng |-> run_first.rng, rng2 |-> rng,
                     gen |-> run_gen, results |-> results]
    /\ Enter(run_in)
    /\ UNCHANGED <<run_in, runOthers>>

NextRun == CallRun \/ RunTrial \/ RunReturn \/ OtherDraw \/ CallAgain

SpecRun == InitRun /\ [][NextRun]_vars

\* the records of one strategy with one path id
RecordsOf(strategy, path_id) ==
    {k \in 1..Len(results) :
        results[k].strategy = strategy /\ results[k].path_id = path_id}

\* C1: in the list returned by run_monte_carlo, for each of the two strategy
\* names every path_id in 0..n_paths-1 appears in exactly one record
\* (2 * n_paths records in total), and the two records with the same path_id
\* carry the same death_age and the same years_lived, years_lived being
\* death_age - start_age.
C1_Pairing ==
    run_pc = "done" =>
        /\ Len(results) = 2 * run_in.n_paths
        /\ \A k \in 1..Len(results) :
              /\ results[k].strategy
                    \in {"hold_to_death", "aggressive_conversion"}
              /\ results[k].path_id \in 0..(run_in.n_paths - 1)
              /\ results[k].years_lived
                    = results[k].death_age - run_in.config.start_age
        /\ \A path_id \in 0..(run_in.n_paths - 1) :
              /\ Cardinality(RecordsOf("hold_to_death", path_id)) = 1
              /\ Cardinality(RecordsOf("aggressive_conversion", path_id)) = 1
              /\ \A j \in RecordsOf("hold_to_death", path_id),
                    k \in RecordsOf("aggressive_conversion", path_id) :
                    /\ results[j].death_age = results[k].death_age
                    /\ results[j].years_lived = results[k].years_lived

\* C1 witness: a run of two paths with different death ages has returned
C1_Witness ==
    /\ run_pc = "done"
    /\ run_in.n_paths = 2
    /\ Len(results) = 4
    /\ results[1].death_age # results[3].death_age
    /\ results[1].path_id = 0 /\ results[2].path_id = 0
    /\ results[3].path_id = 1 /\ results[4].path_id = 1

\* C3: two calls of run_monte_carlo with the same config, n_paths and seed
\* return identical result records (same death ages, same return sequences,
\* same terminal values), whatever the process drew before or between them.
C3_Deterministic ==
    (run_first.called /\ run_pc = "done") =>
        /\ results = run_first.results
        /\ run_gen.death_ages = run_first.gen.death_ages
        /\ run_gen.market_returns = run_first.gen.market_returns

\* C3 witness: the second call started from another generator state than
\* the first call did, and returned the records of two paths
C3_Witness ==
    /\ run_first.called
    /\ run_pc = "done"
    /\ run_first.rng # run_first.rng2
    /\ run_in.n_paths = 2
    /\ run_in.config.sigma = 16
    /\ Len(results) = 4

\* C4: a run whose configuration has start_age >= max_age, or a tax rate
\* outside [0, 1], or sigma < 0, or a trial count <= 0 fails with a
\* ConfigurationError before any market path, death age or result record is
\* produced.
C4_FailsFast ==
    (run_pc # "idle" /\ ~IsValidRun(run_in)) =>
        /\ run_pc = "raised"
        /\ run_err = "ConfigurationError"
        /\ run_gen = NoGen
        /\ results = <<>>

----------------------------------------------------------------------------
(* Specification SpecEngine: SimulationEngine.compare_strategies of         *)
(* src/simulation_engine.py called on an arbitrary generator state; each    *)
(* strategy of the list gets its own run_monte_carlo.                       *)

\* HoldToDeathStrategy() and AggressiveConversionStrategy() with the
\* constructors' defaults
HoldToDeathStrategy ==
    [strategy |-> "hold_to_death", tax_bracket |-> 24, cap_gains_rate |-> 15,
     annual_conversion |-> 0, conversion_end_age |-> 0]

AggressiveConversionStrategy ==
    [strategy |-> "aggressive_conversion", tax_bracket |-> 24,
     cap_gains_rate |-> 15, annual_conversion |-> 100000,
     conversion_end_age |-> 72]

\* MarketSimulator() with the constructor's defaults
MarketSimulator == [mu |-> 7, sigma |-> 16]

\* the seed arguments: None (the default), 0 and positive integers
EngineSeeds == {None, 0, 1, 42}

\* the arguments of compare_strategies: the strategies, their names and the
\* keyword arguments passed on to run_monte_carlo
EngineInputs ==
    [strategies : {<<HoldToDeathStrategy, AggressiveConversionStrategy>>},
     strategy_names : {<<"Hold to Death", "Aggressive Conversion">>},
     start_age : {97, 98}, gender : Genders,
     initial_ira : {1000000}, initial_taxable : {500000},
     cost_basis : {200000},
     n_simulations : 1..MaxPaths, max_years : {2, 3},
     seed : EngineSeeds]

\* `seed + 1 if seed else None`: 0 is falsy
market_seed(seed) == IF seed # None /\ seed # 0 THEN seed + 1 ELSE None

\* run_monte_carlo lines 104-121: the seeding, the death ages and the
\* market returns, on the generator state rng0
oo_generate(self, a, rng0) ==
    LET r0 == seeded(rng0, a.seed)
        d == rng_oo_sample_death_ages(self.survival, a.start_age,
                 a.n_simulations, a.gender, a.seed, r0)
        m == simulate_returns(self.market, a.max_years, a.n_simulations,
                              market_seed(a.seed), d.rng)
    IN [rng |-> m.rng, death_ages |-> d.death_ages,
        market_returns |-> m.returns]

\* run_single_simulation: strategy.simulate with the engine's arguments
oo_strategy_args(strategy, a, death_age, market_returns) ==
    [impl |-> "src", strategy |-> strategy.strategy,
     initial_ira |-> a.initial_ira, initial_taxable |-> a.initial_taxable,
     taxable_basis |-> a.cost_basis, start_age |-> a.start_age,
     death_age |-> death_age, market_returns |-> market_returns,
     tax_bracket |-> strategy.tax_bracket,
     cap_gains_rate |-> strategy.cap_gains_rate,
     rmd_start_age |-> 73,
     annual_conversion |-> strategy.annual_conversion,
     conversion_end_age |-> strategy.conversion_end_age]

run_single_simulation(strategy, a, death_age, market_returns) ==
    LET out == simulate(oo_strategy_args(strategy, a, death_age,
                                         market_returns))
    IN [terminal_wealth |-> out.terminal_wealth,
        total_taxes |-> out.total_taxes, total_rmds |-> out.total_rmds,
        step_up_benefit |-> out.step_up_benefit, death_age |-> death_age]

InitEngine ==
    /\ rng \in 0..(RngMod - 1)
    /\ survival = SurvivalModel(100)
    /\ IdleEngine
    /\ NoRunCall
    /\ rmd_call = NoRmdCall /\ IdleSim /\ mort_call = NoLookup /\ IdleSamp
    /\ IdleElsewhere

\* compare_strategies is called
CallCompare ==
    /\ eng_pc = "idle"
    /\ eng_in' \in EngineInputs
    /\ eng_pc' = "compare"
    /\ eng_k' = 0
    /\ all_results' = <<>>
    /\ UNCHANGED <<rng, eng_gen, eng_i, eng_results, handed, engOthers>>

\* the next strategy of the list: run_monte_carlo is entered and runs up to
\* its loop
EngineRunMonteCarlo ==
    /\ eng_pc = "compare"
    /\ eng_k < Len(eng_in.strategies)
    /\ LET g == oo_generate([market |-> MarketSimulator,
                             survival |-> survival], eng_in, rng)
       IN /\ rng' = g.rng
          /\ eng_gen' = [market_returns |-> g.market_returns,
                         death_ages |-> g.death_ages]
    /\ eng_i' = 0
    /\ eng_results' = <<>>
    /\ eng_pc' = "loop"
    /\ UNCHANGED <<eng_in, eng_k, all_results, handed, engOthers>>

\* one iteration of `for i in range(n_simulations)`
EngineTrial ==
    /\ eng_pc = "loop"
    /\ eng_i < eng_in.n_simulations
    /\ LET death_age == eng_gen.death_ages[eng_i + 1]
           market_returns == eng_gen.market_returns[eng_i + 1]
       IN /\ eng_results' = Append(eng_results,
                run_single_simulation(eng_in.strategies[eng_k + 1], eng_in,
                                      death_age, market_returns))
          /\ handed' = Append(handed,
                [name |-> eng_in.strategy_names[eng_k + 1], i |-> eng_i,
                 death_age |-> death_age, market_returns |-> market_returns])
    /\ eng_i' = eng_i + 1
    /\ UNCHANGED <<rng, eng_pc, eng_in, eng_k, eng_gen, all_results, engOthers>>

\* run_monte_carlo returns: all_results[name] = results
EngineRunReturn ==
    /\ eng_pc = "loop"
    /\ ~(eng_i < eng_in.n_simulations)
    /\ all_results' = Append(all_results,
          [name |-> eng_in.strategy_names[eng_k + 1], results |-> eng_results])
    /\ eng_k' = eng_k + 1
    /\ eng_pc' = "compare"
    /\ UNCHANGED <<rng, eng_in, eng_gen, eng_i, eng_results, handed, engOthers>>

\* the strategies are exhausted: `return all_results`
CompareReturn ==
    /\ eng_pc = "compare"
    /\ ~(eng_k < Len(eng_in.strategies))
    /\ eng_pc' = "done"
    /\ UNCHANGED <<rng, eng_in, eng_k, eng_gen, eng_i, eng_results,
                   all_results, handed, engOthers>>

NextEngine ==
    \/ CallCompare
    \/ EngineRunMonteCarlo
    \/ EngineTrial
    \/ EngineRunReturn
    \/ CompareReturn

SpecEngine == InitEngine /\ [][NextEngine]_vars

\* C2: compare_strategies runs every strategy on the same random paths: for
\* every trial index i, the death age and the market-return sequence handed
\* to one strategy's simulate equal those handed to every other strategy's
\* simulate, for every value of the seed argument (a positive integer, 0 or
\* None).
C2_SamePaths ==
    \A j, k \in 1..Len(handed) :
        handed[j].i = handed[k].i =>
            /\ handed[j].death_age = handed[k].death_age
            /\ handed[j].market_returns = handed[k].market_returns

\* compare_strategies called with an integer seed (0 included) hands every
\* strategy the same death ages and return sequences
EngineSeededSamePaths ==
    (eng_pc # "idle" /\ eng_in.seed # None) => C2_SamePaths

\* both strategies have run on two trials each under an integer seed
EngineSeededReached ==
    /\ eng_pc = "done"
    /\ eng_in.seed # None
    /\ Len(handed) = 4
    /\ handed[1].name # handed[3].name
    /\ handed[1].death_age # handed[2].death_age

----------------------------------------------------------------------------
(* Properties of the strategy simulations, stated on SpecStrat.             *)

\* every supplied return is 0
AllZeroReturns ==
    \A k \in 1..Len(sim_in.market_returns) : sim_in.market_returns[k] = 0

\* C11: HoldToDeath terminal wealth is (tax-deferred balance left after the
\* last simulated year) x (1 - ordinary rate) + the full taxable balance, and
\* step_up_benefit = (final taxable balance - cost basis) x capital-gains
\* rate is reported without being subtracted; with all returns 0, start_age
\* 72 and death_age 73, total_rmds is initial_ira / 26.5 and terminal wealth
\* is (initial_ira - initial_ira / 26.5) x (1 - rate) + initial_taxable.
C11_HoldTerminal ==
    (sim_pc = "done" /\ sim_in.strategy = "hold_to_death") =>
        /\ sim_out.terminal_wealth
              = FloorDiv(acct.ira * (100 - sim_in.tax_bracket), 100)
                + acct.taxable
        /\ sim_out.step_up_benefit
              = FloorDiv((acct.taxable - acct.basis) * sim_in.cap_gains_rate,
                         100)
        /\ (AllZeroReturns /\ sim_in.start_age = 72 /\ sim_in.death_age = 73)
              => /\ IsQuotient(sim_out.total_rmds, sim_in.initial_ira, 265)
                 /\ sim_out.terminal_wealth
                       = FloorDiv((sim_in.initial_ira - sim_out.total_rmds)
                                  * (100 - sim_in.tax_bracket), 100)
                         + sim_in.initial_taxable

\* C11 witness: hold-to-death from 72 to 73 on a 0% return took
\* 1000000 / 26.5 and ended with 962265 x 0.76 + 500000
C11_Witness ==
    /\ sim_pc = "done"
    /\ sim_in.strategy = "hold_to_death"
    /\ sim_in.start_age = 72
    /\ sim_in.death_age = 73
    /\ sim_in.market_returns = <<0>>
    /\ sim_in.initial_ira = 1000000
    /\ sim_out.total_rmds = 37735
    /\ sim_out.terminal_wealth = 1231321
    /\ sim_out.step_up_benefit = 45000

\* the number of years a simulation has to run
YearsToSimulate == Max(0, sim_in.death_age - sim_in.start_age)

\* the steps done so far never exceed death_age - start_age, and a finished
\* simulation has done exactly that many, with one snapshot each
StepsCounted ==
    /\ sim_pc # "idle" =>
          /\ year <= YearsToSimulate
          /\ Len(trace) = year
          /\ sim_in.impl = "code" => Len(snapshots) = year
    /\ sim_pc = "done" =>
          /\ year = YearsToSimulate
          /\ sim_in.impl = "code" =>
                /\ Len(snapshots) = YearsToSimulate
                /\ \A k \in 1..Len(snapshots) :
                      /\ snapshots[k].year = k
                      /\ snapshots[k].age = sim_in.start_age + k
                /\ Len(snapshots) > 0 =>
                      snapshots[Len(snapshots)].age = sim_in.death_age

\* a running simulation either does one more of the years that remain or,
\* none remaining, returns its terminal summary
LoopAdvances ==
    sim_pc = "loop" =>
        \/ /\ year < YearsToSimulate
           /\ year' = year + 1
           /\ sim_pc' = "loop"
        \/ /\ year = YearsToSimulate
           /\ year' = year
           /\ sim_pc' = "done"
           /\ sim_out' = terminal(sim_in, acct)

\* C12: each strategy simulation performs exactly death_age - start_age
\* yearly steps (none when death_age <= start_age) and then terminates with
\* its terminal summary; the functional strategies return exactly that many
\* snapshots, the k-th with year = k and age = start_age + k, the last one's
\* age being death_age.
C12_Steps == []StepsCounted /\ [][LoopAdvances]_vars

\* C12 witness: a functional simulation of three years has returned three
\* snapshots, the last one at death_age
C12_Witness ==
    /\ sim_pc = "done"
    /\ sim_in.impl = "code"
    /\ sim_in.death_age = sim_in.start_age + 3
    /\ Len(snapshots) = 3
    /\ snapshots[3].year = 3
    /\ snapshots[3].age = sim_in.death_age

\* a year whose index is at or beyond the length of the supplied returns is
\* being simulated
FallbackYear ==
    /\ sim_pc = "loop"
    /\ year' = year + 1
    /\ year >= Len(sim_in.market_returns)

\* in such a year nothing grows: the balances change by the conversion and
\* the required distribution only
ZeroReturnApplied ==
    LET t == trace'[Len(trace')]
    IN /\ t.grown = acct.ira
       /\ acct'.ira = acct.ira - t.converted - t.rmd
       /\ acct'.roth = acct.roth + t.converted
       /\ acct'.taxable = acct.taxable
       /\ acct'.basis = acct.basis

\* C14: for any year index at or beyond the length of the supplied return
\* sequence a strategy simulation applies a 0% return and does not fail: the
\* balances change only by the conversion and the required distribution,
\* and the simulation still runs all death_age - start_age years.
C14_ZeroFallback ==
    /\ [][FallbackYear => ZeroReturnApplied]_vars
    /\ [](sim_pc = "done" => year = YearsToSimulate)

\* C14 witness: a simulation of three years was given one return, of 10%, and
\* has finished; its last two years left the taxable balance where the
\* first had put it
C14_Witness ==
    /\ sim_pc = "done"
    /\ sim_in.market_returns = <<10>>
    /\ sim_in.initial_ira = 1000000
    /\ year = 3
    /\ Len(trace) = 3
    /\ trace[1].grown = 1100000
    /\ acct.taxable = 550000

\* a year of the aggressive-conversion strategy is being simulated
ConversionStrategyYear ==
    /\ sim_pc = "loop"
    /\ year' = year + 1
    /\ sim_in.strategy = "aggressive_conversion"

\* what the year did with the conversion: t is the year's record, ret its
\* return
ConversionRule ==
    LET t == trace'[Len(trace')]
        ret == ReturnAt(sim_in.market_returns, year)
        rmd_tax == FloorDiv(t.rmd * sim_in.tax_bracket, 100)
    IN /\ t.age = sim_in.start_age + year + 1
       /\ (t.age <= sim_in.conversion_end_age /\ t.grown > 0) =>
             /\ t.converted = Min(sim_in.annual_conversion, t.grown)
             /\ t.rmd_base = t.grown - t.converted
             /\ acct'.roth = Grow(acct.roth, ret) + t.converted
             /\ acct'.total_taxes
                   = acct.total_taxes
                     + FloorDiv(t.converted * sim_in.tax_bracket, 100)
                     + rmd_tax
       /\ t.age > sim_in.conversion_end_age =>
             /\ t.converted = 0
             /\ t.rmd_base = t.grown
             /\ acct'.roth = Grow(acct.roth, ret)
             /\ acct'.total_taxes = acct.total_taxes + rmd_tax

\* C19: in every simulated year of AggressiveConversion, if the end-of-year
\* age is <= conversion_end_age and the post-growth tax-deferred balance is
\* positive, exactly min(annual_conversion, post-growth balance) moves from
\* the tax-deferred to the tax-free balance and that amount x ordinary rate
\* is added to total taxes; in every year whose age is > conversion_end_age
\* nothing is converted.
C19_Conversion == [][ConversionStrategyYear => ConversionRule]_vars

\* C19 witness: from 71, with conversions up to 72, a balance grown to
\* 1100000 gave up 100000 in the first year and nothing at ages 73 and 74
C19_Witness ==
    /\ sim_pc = "done"
    /\ sim_in.strategy = "aggressive_conversion"
    /\ sim_in.start_age = 71
    /\ sim_in.conversion_end_age = 72
    /\ sim_in.annual_conversion = 100000
    /\ Len(trace) = 3
    /\ trace[1].grown = 1100000
    /\ trace[1].converted = 100000
    /\ trace[2].converted = 0
    /\ trace[3].converted = 0
    /\ acct.roth > 0

\* a year of a strategy simulation is being simulated
YearSimulated == sim_pc = "loop" /\ year' = year + 1

\* growth, then conversion, then the required distribution on what is left
GrowthConversionDistribution ==
    LET t == trace'[Len(trace')]
        grown == Grow(acct.ira, ReturnAt(sim_in.market_returns, year))
        base == grown - t.converted
    IN /\ t.grown = grown
       /\ t.rmd_base = base
       /\ sim_in.strategy = "hold_to_death" => t.converted = 0
       /\ t.age < 73 => t.rmd = 0
       /\ t.age >= 73 => IsQuotient(t.rmd, base, ScheduleDivisor(t.age))
       /\ acct'.ira = base - t.rmd
       /\ acct'.total_rmds = acct.total_rmds + t.rmd

RECURSIVE Compounded(_, _, _)
Compounded(x, market_returns, n) ==
    IF n = 0 THEN x
    ELSE Grow(Compounded(x, market_returns, n - 1),
              ReturnAt(market_returns, n - 1))

\* C21: the taxable-account cost basis is never changed by any yearly step
\* of either strategy (every snapshot's taxable_basis equals the initial
\* basis), and the taxable balance is changed only by market growth: after
\* n years it equals initial_taxable x the product of (1 + r_k) over the n
\* applied returns, regardless of conversions, distributions and taxes.
C21_TaxableFrame ==
    sim_pc # "idle" =>
        /\ acct.basis = sim_in.taxable_basis
        /\ acct.taxable =
              Compounded(sim_in.initial_taxable, sim_in.market_returns, year)
        /\ \A k \in 1..Len(snapshots) :
              /\ snapshots[k].taxable_basis = sim_in.taxable_basis
              /\ snapshots[k].taxable_balance =
                    Compounded(sim_in.initial_taxable, sim_in.market_returns, k)

\* C21 witness: three years of aggressive conversion with a conversion and a
\* distribution taken, the taxable account grown 10% a year from 500000
C21_Witness ==
    /\ sim_pc = "done"
    /\ sim_in.strategy = "aggressive_conversion"
    /\ sim_in.impl = "code"
    /\ Len(snapshots) = 3
    /\ Len(trace) = 3
    /\ trace[1].converted > 0
    /\ trace[3].rmd > 0
    /\ acct.total_taxes > 0
    /\ sim_in.market_returns = <<10, 10, 10>>
    /\ snapshots[3].taxable_balance = 665500
    /\ snapshots[3].taxable_basis = 200000

\* the simulation's arguments are in the domain the claim is about
NonNegativeArguments ==
    /\ sim_in.initial_ira >= 0
    /\ sim_in.initial_taxable >= 0
    /\ sim_in.annual_conversion >= 0
    /\ \A k \in 1..Len(sim_in.market_returns) :
          sim_in.market_returns[k] > -100

DistributionLeavesBalance ==
    sim_pc # "idle" =>
        \A k \in 1..Len(trace) :
            trace[k].rmd > 0 => trace[k].rmd < trace[k].rmd_base

\* the sums over the first k simulated years: distributions taken, amounts
\* converted, and the tax computed on each of them
RECURSIVE SumRmds(_)
SumRmds(k) == IF k = 0 THEN 0 ELSE SumRmds(k - 1) + trace[k].rmd

RECURSIVE SumConverted(_)
SumConverted(k) == IF k = 0 THEN 0 ELSE SumConverted(k - 1) + trace[k].converted

RECURSIVE SumItemTaxes(_)
SumItemTaxes(k) ==
    IF k = 0 THEN 0
    ELSE SumItemTaxes(k - 1) + Pct(trace[k].rmd, sim_in.tax_bracket)
                             + Pct(trace[k].converted, sim_in.tax_bracket)

\* the number of amounts taxed in the first k years
RECURSIVE TaxedItems(_)
TaxedItems(k) ==
    IF k = 0 THEN 0
    ELSE TaxedItems(k - 1) + (IF trace[k].rmd > 0 THEN 1 ELSE 0)
                           + (IF trace[k].converted > 0 THEN 1 ELSE 0)

\* the sums over the snapshots of simulate_* (code/)
RECURSIVE SumRmdTaken(_)
SumRmdTaken(k) ==
    IF k = 0 THEN 0 ELSE SumRmdTaken(k - 1) + snapshots[k].rmd_taken

RECURSIVE SumTaxesPaid(_)
SumTaxesPaid(k) ==
    IF k = 0 THEN 0 ELSE SumTaxesPaid(k - 1) + snapshots[k].taxes_paid

\* the totals are the sums of the yearly amounts in the snapshots
TotalsAreSnapshotSums ==
    /\ acct.total_rmds = SumRmds(Len(trace))
    /\ sim_in.impl = "code" =>
          /\ Len(snapshots) = Len(trace)
          /\ acct.total_rmds = SumRmdTaken(Len(snapshots))
          /\ acct.total_taxes = SumTaxesPaid(Len(snapshots))

----------------------------------------------------------------------------
(* Properties of the orchestrators.                                         *)

\* run_monte_carlo of run_simulation.py: every generated return sequence has
\* max_age - start_age entries, which covers every death age it sampled
RunEnoughReturns ==
    run_pc \in {"loop", "done"} =>
        \A i \in 1..Len(run_gen.market_returns) :
            /\ Len(run_gen.market_returns[i])
                  >= run_in.config.max_age - run_in.config.start_age
            /\ Len(run_gen.market_returns[i])
                  >= run_gen.death_ages[i] - run_in.config.start_age

\* C13: in every trial run by an orchestrator the return sequence passed to
\* the strategy has at least max_age - start_age entries, hence at least
\* death_age - start_age entries, so no lived year falls back to the 0%
\* return; stated for SimulationEngine.run_monte_carlo with its SurvivalModel
\* and max_years.
C13_EnoughReturns ==
    \A k \in 1..Len(handed) :
        /\ Len(handed[k].market_returns)
              >= survival.max_age - eng_in.start_age
        /\ Len(handed[k].market_returns)
              >= handed[k].death_age - eng_in.start_age

\* a trial of the engine lives more years than it has returns for
EngineYearWithoutReturn ==
    \E k \in 1..Len(handed) :
        Len(handed[k].market_returns)
            < handed[k].death_age - eng_in.start_age

----------------------------------------------------------------------------
(* Properties of the samplers, stated on SpecSample.                        *)

\* C15: if start_age >= max_age, every sample returned by each death-age
\* sampler (the sequential ones and the inverse-transform one) equals
\* max_age, whatever the uniform draws.
C15_AtOrPastMaxAge ==
    (samp.sampler # "none" /\ samp.current_age >= samp.max_age) =>
        /\ Len(samp.death_ages) = samp.n_samples
        /\ \A i \in 1..samp.n_samples : samp.death_ages[i] = samp.max_age

\* C15 witness: the inverse-transform sampler was called with start_age one
\* above max_age (empty CDF) and returned max_age for both draws
C15_Witness ==
    /\ samp.sampler = "vectorized"
    /\ samp.current_age = samp.max_age + 1
    /\ samp.n_samples = 2
    /\ samp.draws = <<0, QOne - 1>>
    /\ samp.death_ages = <<samp.max_age, samp.max_age>>

\* the call recorded in samp is one of a sequential sampler
SequentialCall == samp.sampler \in {"sequential", "oo_sequential"}

\* the death probability the recorded sequential sampler compares a draw to
WalkProbability(age) ==
    IF samp.sampler = "sequential"
    THEN get_death_probability(age, samp.gender)
    ELSE oo_get_death_probability(survival, age, samp.gender)

\* the draws trial i consumed, read off the age it returned
DrawsOfTrial(i) ==
    IF samp.death_ages[i] < samp.max_age
    THEN samp.death_ages[i] - samp.current_age + 1
    ELSE Max(0, samp.max_age - samp.current_age)

\* the draws consumed by the trials before trial i
RECURSIVE DrawsBefore(_)
DrawsBefore(i) == IF i <= 1 THEN 0 ELSE DrawsBefore(i - 1) + DrawsOfTrial(i - 1)

\* trial i walked age by age from current_age on its own draws and stopped
\* at the first death draw or at max_age
WalkedToFirstDeath(i) ==
    LET d == samp.death_ages[i]
        draw(age) == samp.draws[DrawsBefore(i) + (age - samp.current_age) + 1]
    IN /\ d <= samp.max_age
       /\ d < samp.max_age =>
             /\ d >= samp.current_age
             /\ draw(d) < WalkProbability(d)
       /\ \A age \in samp.current_age..(d - 1) :
             draw(age) >= WalkProbability(age)
       /\ DrawsOfTrial(i) <= Max(0, samp.max_age - samp.current_age)

\* C23: the sequential sampler walks age by age from start_age, consuming
\* one uniform draw per age: it returns the first age whose draw is below
\* that age's q_x, returns max_age if no draw before max_age succeeds, and
\* each trial's walk terminates after at most max_age - start_age draws.
C23_SequentialWalk ==
    SequentialCall =>
        /\ Len(samp.death_ages) = samp.n_samples
        /\ \A i \in 1..samp.n_samples : WalkedToFirstDeath(i)
        /\ samp.used = DrawsBefore(samp.n_samples + 1)
        /\ samp.used <= Len(samp.draws)

\* C23 witness: the first trial survived its first draw and died on its
\* second, the second trial survived both of its draws and got max_age
C23_Witness ==
    /\ samp.sampler = "sequential"
    /\ samp.n_samples = 2
    /\ samp.max_age = samp.current_age + 2
    /\ samp.draws = <<QOne - 1, 0, QOne - 1, QOne - 1>>
    /\ samp.death_ages = <<samp.current_age + 1, samp.max_age>>
    /\ samp.used = 4

----------------------------------------------------------------------------
(* Properties of the mortality lookups, stated on SpecMort.                 *)

\* C24: the functional and the object-oriented mortality lookups implement
\* the same curve: for every integer age in [0, 119] and each gender,
\* get_death_probability(age, gender) of ssa_life_tables.py equals
\* SurvivalModel(max_age=119).get_death_probability(age, gender).
C24_SameCurve ==
    (mort_call.made /\ survival.max_age = 119 /\ mort_call.age \in 0..119) =>
        mort_call.code = mort_call.src

\* outside the ages 2, 3 and 4, which only the table of ssa_life_tables.py
\* tabulates, the two lookups do agree
SameCurveButTwoToFour ==
    (mort_call.made /\ survival.max_age = 119 /\ mort_call.age \in 0..119
        /\ mort_call.age \notin {2, 3, 4}) =>
        mort_call.code = mort_call.src

----------------------------------------------------------------------------
(* Specification SpecTables: a death-probability lookup and then a          *)
(* calculate_rmd call (with its divisor lookup) at the same age.            *)

InitTables == InitMort

\* calculate_rmd called at the age just looked up in the mortality tables
CallCalculateRmdAtAge ==
    /\ mort_call.made
    /\ CallCalculateRmd
    /\ rmd_call'.age = mort_call.age

NextTables == Lookup \/ CallCalculateRmdAtAge

SpecTables == InitTables /\ [][NextTables]_vars

\* C16: table lookups never raise for out-of-range ages: the death
\* probability for every age above the mortality table's last age (119) is
\* 1.0, and the RMD divisor for every age above the divisor table's last age
\* (120) is the terminal divisor 2.0; for every age >= 73 the divisor is
\* strictly positive, so calculate_rmd never distributes the full balance
\* for want of a divisor.
C16_TablesClamp ==
    /\ (mort_call.made /\ mort_call.age > 119) =>
          /\ mort_call.code = QOne
          /\ mort_call.src = QOne
    /\ (rmd_call.made /\ rmd_call.age > 120) =>
          /\ rmd_call.divisor = TERMINAL_DIVISOR
          /\ TERMINAL_DIVISOR = 2 * DivisorScale
    /\ (rmd_call.made /\ rmd_call.age >= 73) =>
          /\ rmd_call.divisor > 0
          /\ IsQuotient(rmd_call.code, rmd_call.balance, rmd_call.divisor)
          /\ rmd_call.src = rmd_call.code

\* C16 witness: age 121 was looked up beyond both tables: death probability
\* 1.0 in both renderings, divisor 2.0, and half of the balance distributed
C16_Witness ==
    /\ mort_call.made
    /\ mort_call.age = 121
    /\ mort_call.code = QOne
    /\ mort_call.src = QOne
    /\ rmd_call.made
    /\ rmd_call.age = 121
    /\ rmd_call.divisor = 20
    /\ rmd_call.balance = 1000000
    /\ rmd_call.code = 500000

----------------------------------------------------------------------------
(* Specification SpecConc: simulate_gbm_paths and sample_death_ages of      *)
(* code/simulation_engine.py called from two threads of one process.  Both  *)
(* work on the module-level generator np.random; a step is one call into    *)
(* np.random (the generator serialises its calls) with the Python           *)
(* statements up to the next such call.                                     *)

ConcSeeds == {0, 1, 42}

ConcInputs ==
    {[started |-> TRUE, market_seed |-> ms, death_seed |-> ds,
      n_paths |-> n_paths, T |-> T, current_age |-> current_age,
      n_samples |-> n_samples, max_age |-> current_age + walk,
      gender |-> "M",
      market_pc |-> "seed", paths |-> <<>>,
      death_pc |-> "seed", i |-> 0, age |-> current_age,
      death_ages |-> <<>>] :
        ms \in ConcSeeds, ds \in ConcSeeds, n_paths \in 1..MaxPaths,
        T \in 1..MaxWalk, current_age \in {97, 98}, walk \in 1..MaxWalk,
        n_samples \in 1..MaxSamples}

InitConc ==
    /\ rng \in 0..(RngMod - 1)
    /\ conc = NoConc
    /\ flt = NoFloatRun
    /\ lam = NoInvocation
    /\ rmd_call = NoRmdCall /\ IdleSim /\ IdleMort /\ IdleSamp
    /\ NoRunCall /\ IdleEngine

\* the two calls are started, each in its own thread
StartThreads ==
    /\ ~conc.started
    /\ conc' \in ConcInputs
    /\ UNCHANGED <<rng, concOthers>>

\* simulate_gbm_paths: `if seed is not None: np.random.seed(seed)`
MarketSeed ==
    /\ conc.market_pc = "seed"
    /\ rng' = seeded(rng, conc.market_seed)
    /\ conc' = [conc EXCEPT !.market_pc = "draw"]
    /\ UNCHANGED concOthers

\* simulate_gbm_paths: Z = np.random.standard_normal((n_paths, T)) and the
\* arithmetic up to `return paths`
MarketDraw ==
    /\ conc.market_pc = "draw"
    /\ LET g == simulate_gbm_paths(100, 7, 15, conc.T, conc.n_paths, None, rng)
       IN /\ rng' = g.rng
          /\ conc' = [conc EXCEPT !.market_pc = "done", !.paths = g.paths]
    /\ UNCHANGED concOthers

\* sample_death_ages: `if seed is not None: np.random.seed(seed)`
DeathSeed ==
    /\ conc.death_pc = "seed"
    /\ rng' = seeded(rng, conc.death_seed)
    /\ conc' = [conc EXCEPT !.death_pc = "loop"]
    /\ UNCHANGED concOthers

\* sample_death_ages: one pass of `while age < max_age` with its draw
DeathDraw ==
    /\ conc.death_pc = "loop"
    /\ conc.i < conc.n_samples
    /\ conc.age < conc.max_age
    /\ rng' = rng_next(rng)
    /\ conc' = IF uniform(rng') < get_death_probability(conc.age, conc.gender)
               THEN [conc EXCEPT !.death_ages = Append(@, conc.age),
                                 !.i = @ + 1, !.age = conc.current_age]
               ELSE [conc EXCEPT !.age = @ + 1]
    /\ UNCHANGED concOthers

\* sample_death_ages: the `else` of the while loop, survived to max_age
DeathSurvived ==
    /\ conc.death_pc = "loop"
    /\ conc.i < conc.n_samples
    /\ conc.age >= conc.max_age
    /\ conc' = [conc EXCEPT !.death_ages = Append(@, conc.max_age),
                            !.i = @ + 1, !.age = conc.current_age]
    /\ UNCHANGED <<rng, concOthers>>

\* sample_death_ages: `return death_ages`
DeathReturn ==
    /\ conc.death_pc = "loop"
    /\ conc.i >= conc.n_samples
    /\ conc' = [conc EXCEPT !.death_pc = "done"]
    /\ UNCHANGED <<rng, concOthers>>

NextConc ==
    \/ StartThreads
    \/ MarketSeed
    \/ MarketDraw
    \/ DeathSeed
    \/ DeathDraw
    \/ DeathSurvived
    \/ DeathReturn

SpecConc == InitConc /\ [][NextConc]_vars

\* what the two calls return when run one after the other with the same seeds
SequentialPaths ==
    simulate_gbm_paths(100, 7, 15, conc.T, conc.n_paths, conc.market_seed,
                       0).paths

SequentialDeathAges ==
    rng_sample_death_ages(conc.current_age, conc.n_samples, conc.gender,
                          conc.max_age, conc.death_seed, 0).death_ages

\* C18: the random-number consumers share no mutable state: when seeded
\* market-path generation and seeded death-age sampling run concurrently,
\* every interleaving of their seeding and drawing steps yields the same
\* return sequences and death ages as running them one after the other with
\* the same seeds.
C18_AnyInterleaving ==
    (conc.market_pc = "done" /\ conc.death_pc = "done") =>
        /\ conc.paths = SequentialPaths
        /\ conc.death_ages = SequentialDeathAges

\* the market call run to its end before the sampler's first statement does
\* return the sequential paths
MarketAloneSame ==
    (conc.market_pc = "done" /\ conc.death_pc = "seed") =>
        conc.paths = SequentialPaths

\* the sampler run to its end before the market call's first statement does
\* return the sequential death ages
SamplerAloneSame ==
    (conc.death_pc = "done" /\ conc.market_pc = "seed") =>
        conc.death_ages = SequentialDeathAges

----------------------------------------------------------------------------
(* Binary64 arithmetic.  The strategy functions compute in Python floats:   *)
(* a result beyond the largest finite value is inf (no exception is         *)
(* raised), inf - inf and inf * 0 are nan, and every comparison with nan is *)
(* False.  FloatMax stands for the largest finite value, in whole dollars.  *)

FloatMax == 20000000

Inf == FloatMax + 1
NegInf == -(FloatMax + 1)
NaN == FloatMax + 2

\* math.isfinite
isfinite(x) == x >= -FloatMax /\ x <= FloatMax

Abs(x) == IF x < 0 THEN -x ELSE x

\* a + b
float_add(a, b) ==
    IF a = NaN \/ b = NaN THEN NaN
    ELSE IF a = Inf THEN (IF b = NegInf THEN NaN ELSE Inf)
    ELSE IF a = NegInf THEN (IF b = Inf THEN NaN ELSE NegInf)
    ELSE IF b = Inf \/ b = NegInf THEN b
    ELSE IF a + b > FloatMax THEN Inf
    ELSE IF a + b < -FloatMax THEN NegInf
    ELSE a + b

\* a - b
float_sub(a, b) ==
    float_add(a, IF b = NaN THEN NaN ELSE IF b = Inf THEN NegInf
                 ELSE IF b = NegInf THEN Inf ELSE -b)

\* a * (num / den) for a finite factor num / den, den > 0
float_scale(a, num, den) ==
    IF a = NaN THEN NaN
    ELSE IF a = Inf \/ a = NegInf
    THEN (IF num = 0 THEN NaN
          ELSE IF (a = Inf) = (num > 0) THEN Inf ELSE NegInf)
    ELSE IF Abs(num) > den /\ Abs(a) > (FloatMax * den) \div Abs(num)
    THEN (IF (a > 0) = (num > 0) THEN Inf ELSE NegInf)
    ELSE FloorDiv(a * num, den)

\* a > b
float_gt(a, b) == a # NaN /\ b # NaN /\ a > b

\* min(a, b) of Python: b if b < a, else a
float_min(a, b) == IF float_gt(a, b) THEN b ELSE a

\* calculate_rmd (code/) in binary64
float_calculate_rmd(ira_balance, age) ==
    IF age < RMD_AGE THEN 0
    ELSE LET divisor == get_rmd_divisor(age)
         IN IF divisor <= 0 THEN ira_balance
            ELSE float_scale(ira_balance, DivisorScale, divisor)

\* one iteration of the loop of simulate_hold_to_death (code/) in binary64
float_hold_year(p, s, y) ==
    LET age == p.start_age + y + 1
        market_return == ReturnAt(p.market_returns, y)
        ira1 == float_scale(s.ira, 100 + market_return, 100)
        taxable1 == float_scale(s.taxable, 100 + market_return, 100)
        rmd == float_calculate_rmd(ira1, age)
        taken == float_gt(rmd, 0)
        taxes == IF taken THEN float_scale(rmd, p.tax_bracket, 100) ELSE 0
    IN [ira |-> IF taken THEN float_sub(ira1, rmd) ELSE ira1,
        roth |-> s.roth, taxable |-> taxable1, basis |-> s.basis,
        total_taxes |-> IF taken THEN float_add(s.total_taxes, taxes)
                        ELSE s.total_taxes,
        total_rmds |-> IF taken THEN float_add(s.total_rmds, rmd)
                       ELSE s.total_rmds]

\* one iteration of the loop of simulate_aggressive_conversion (code/) in
\* binary64
float_agg_year(p, s, y) ==
    LET age == p.start_age + y + 1
        market_return == ReturnAt(p.market_returns, y)
        ira1 == float_scale(s.ira, 100 + market_return, 100)
        roth1 == float_scale(s.roth, 100 + market_return, 100)
        taxable1 == float_scale(s.taxable, 100 + market_return, 100)
        converts == age <= p.conversion_end_age /\ float_gt(ira1, 0)
        convert_amount == IF converts THEN float_min(p.annual_conversion, ira1)
                          ELSE 0
        conversion_tax == IF converts
                          THEN float_scale(convert_amount, p.tax_bracket, 100)
                          ELSE 0
        ira2 == IF converts THEN float_sub(ira1, convert_amount) ELSE ira1
        roth2 == IF converts THEN float_add(roth1, convert_amount) ELSE roth1
        taxes1 == IF converts THEN float_add(s.total_taxes, conversion_tax)
                  ELSE s.total_taxes
        rmd == float_calculate_rmd(ira2, age)
        taken == float_gt(rmd, 0)
        rmd_tax == IF taken THEN float_scale(rmd, p.tax_bracket, 100) ELSE 0
    IN [ira |-> IF taken THEN float_sub(ira2, rmd) ELSE ira2,
        roth |-> roth2, taxable |-> taxable1, basis |-> s.basis,
        total_taxes |-> IF taken THEN float_add(taxes1, rmd_tax) ELSE taxes1,
        total_rmds |-> IF taken THEN float_add(s.total_rmds, rmd)
                       ELSE s.total_rmds]

\* `for year in range(years_to_simulate)` of both functions in binary64
RECURSIVE float_run_years(_, _, _)
float_run_years(p, s, y) ==
    IF y < p.death_age - p.start_age
    THEN float_run_years(p,
             IF p.strategy = "hold_to_death" THEN float_hold_year(p, s, y)
             ELSE float_agg_year(p, s, y),
             y + 1)
    ELSE s

\* the statements after the loop in binary64
float_terminal(p, s) ==
    LET ira_after_tax == float_scale(s.ira, 100 - p.tax_bracket, 100)
        unrealized_gain == float_sub(s.taxable, s.basis)
        step_up_benefit == float_scale(unrealized_gain, p.cap_gains_rate, 100)
    IN [terminal_wealth |->
            float_add(float_add(ira_after_tax, s.roth), s.taxable),
        total_taxes |-> s.total_taxes,
        total_rmds |-> s.total_rmds,
        step_up_benefit |-> step_up_benefit]

\* simulate_hold_to_death / simulate_aggressive_conversion (code/) in binary64
float_simulate(p) == float_terminal(p, float_run_years(p, initial_acct(p), 0))

\* the dictionary run_monte_carlo appends for trial i and one strategy
float_result_record(c, strategy, i, death_age, returns) ==
    LET out == float_simulate(strategy_args(c, strategy, death_age, returns))
    IN [path_id |-> i,
        strategy |-> strategy,
        death_age |-> death_age,
        years_lived |-> death_age - c.start_age,
        terminal_wealth |-> out.terminal_wealth,
        total_taxes_paid |-> out.total_taxes,
        total_rmd_withdrawals |-> out.total_rmds,
        step_up_benefit |-> out.step_up_benefit]

----------------------------------------------------------------------------
(* Specification SpecFloat: the loop of run_monte_carlo (code/) over the    *)
(* generated death ages and market returns, the strategy functions          *)
(* computing in binary64.                                                   *)

\* yearly returns in percent; the largest compounds past FloatMax in two
\* years
FloatReturns == {-16, 6, 400}

\* the generated arrays: a death age and a row of max_years returns per path
FloatRuns ==
    UNION {
      {[pc |-> "loop", config |-> c, n_paths |-> n_paths,
        death_ages |-> death_ages,
        market_returns |-> [i \in 1..n_paths |->
                               [t \in 1..(c.max_age - c.start_age) |-> r[i]]],
        i |-> 0, results |-> <<>>] :
          death_ages \in [1..n_paths -> c.start_age..c.max_age],
          r \in [1..n_paths -> FloatReturns]} :
      c \in {Config(sa, sa + MaxYears, "M", 24, 15, 0) : sa \in {71, 72}},
      n_paths \in 1..MaxPaths}

InitFloat ==
    /\ flt = NoFloatRun
    /\ conc = NoConc
    /\ lam = NoInvocation
    /\ rng = 0 /\ NoRunCall /\ IdleEngine
    /\ rmd_call = NoRmdCall /\ IdleSim /\ IdleMort /\ IdleSamp

\* `results = []` after the arrays were generated
FloatEnterLoop ==
    /\ flt.pc = "idle"
    /\ flt' \in FloatRuns
    /\ UNCHANGED fltOthers

\* one iteration of `for i in range(n_paths)`: both strategies are simulated
\* and their dictionaries appended
FloatTrial ==
    /\ flt.pc = "loop"
    /\ flt.i < flt.n_paths
    /\ LET death_age == flt.death_ages[flt.i + 1]
           returns == flt.market_returns[flt.i + 1]
       IN flt' = [flt EXCEPT
              !.results = @ \o
                  <<float_result_record(flt.config, "hold_to_death", flt.i,
                                        death_age, returns),
                    float_result_record(flt.config, "aggressive_conversion",
                                        flt.i, death_age, returns)>>,
              !.i = @ + 1]
    /\ UNCHANGED fltOthers

\* `return results`
FloatReturn ==
    /\ flt.pc = "loop"
    /\ flt.i >= flt.n_paths
    /\ flt' = [flt EXCEPT !.pc = "done"]
    /\ UNCHANGED fltOthers

NextFloat == FloatEnterLoop \/ FloatTrial \/ FloatReturn

SpecFloat == InitFloat /\ [][NextFloat]_vars

\* a record whose terminal wealth, total taxes or total withdrawals is
\* non-finite
NonFinite(rec) ==
    \/ ~isfinite(rec.terminal_wealth)
    \/ ~isfinite(rec.total_taxes_paid)
    \/ ~isfinite(rec.total_rmd_withdrawals)

\* a record that carries a validity flag, and the flag says invalid
FlaggedInvalid(rec) == "valid" \in DOMAIN rec /\ ~rec["valid"]

\* the run went through every trial
RunContinues ==
    /\ Len(flt.results) = 2 * flt.i
    /\ flt.pc = "done" => flt.i = flt.n_paths

\* the finite records are the ones the exact arithmetic gives
FiniteRecordsUnchanged ==
    \A k \in 1..Len(flt.results) :
        LET rec == flt.results[k]
            i == rec.path_id
        IN ~NonFinite(rec) /\ isfinite(rec.step_up_benefit) =>
              rec = result_record(flt.config, rec.strategy, i,
                                  flt.death_ages[i + 1],
                                  flt.market_returns[i + 1])

\* C17: a trial whose terminal wealth, total taxes or total withdrawals is
\* non-finite (overflow of the compounded balances) is detected and its
\* result record is flagged invalid, while the run continues and the records
\* of all other trials are produced unchanged.
C17_NonFiniteFlagged ==
    /\ \A k \in 1..Len(flt.results) :
          NonFinite(flt.results[k]) => FlaggedInvalid(flt.results[k])
    /\ RunContinues
    /\ FiniteRecordsUnchanged

\* a run returned with a record holding a non-finite value
NonFiniteReturned ==
    /\ flt.pc = "done"
    /\ \E k \in 1..Len(flt.results) : NonFinite(flt.results[k])

----------------------------------------------------------------------------
(* week03/src/handler.py : the Lambda handler.  A Python value is a record  *)
(* tagged with its kind: an absent dictionary key, None, a string, or a     *)
(* dictionary with the keys the handler reads.                              *)

Absent == [kind |-> "absent"]
PyNone == [kind |-> "None"]
Str(s) == [kind |-> "str", s |-> s]

\* the dictionaries the handler reads: event['requestContext'],
\* requestContext['http'] and event['pathParameters']
ContextDict(http) == [kind |-> "dict", http |-> http]
HttpDict(method) == [kind |-> "dict", method |-> method]
ParamsDict(id) == [kind |-> "dict", id |-> id]

\* d.get(key, default), entry being what d holds under key
dict_get(entry, default) == IF entry.kind = "absent" THEN default ELSE entry

\* only a dictionary has the attribute get
has_get(v) == v.kind = "dict"

\* the truth value of a string or None
truthy(v) == v.kind = "str" /\ v.s # ""

CORS_HEADERS ==
    [Allow_Origin |-> "*",
     Allow_Headers |->
         "Content-Type,X-Amz-Date,Authorization,X-Api-Key,X-Amz-Security-Token",
     Allow_Methods |-> "GET,POST,OPTIONS"]

\* the dictionaries the handler returns
Response(statusCode, body) ==
    [statusCode |-> statusCode, headers |-> CORS_HEADERS, body |-> body]

\* json.loads of the request bodies the model sends: an exception, or the
\* parsed value with body.get('id') where it is a dictionary
json_loads(raw) ==
    IF raw.kind # "str" THEN [kind |-> "TypeError"]
    ELSE IF raw.s = "{bad" THEN [kind |-> "JSONDecodeError"]
    ELSE IF raw.s = "[]" THEN [kind |-> "list"]
    ELSE IF raw.s = "{}" THEN [kind |-> "dict", id |-> PyNone]
    ELSE IF raw.s = "{\"id\": \"\"}" THEN [kind |-> "dict", id |-> Str("")]
    ELSE IF raw.s = "{\"id\": \"a\"}" THEN [kind |-> "dict", id |-> Str("a")]
    ELSE [kind |-> "dict", id |-> Str("b")]

\* http_method of lambda_handler: event.get('httpMethod') or
\* event.get('requestContext', {}).get('http', {}).get('method')
http_method(event) ==
    LET first == dict_get(event.httpMethod, PyNone)
        requestContext == dict_get(event.requestContext, ContextDict(Absent))
        http == dict_get(requestContext.http, HttpDict(Absent))
    IN IF truthy(first) THEN [raised |-> "none", value |-> first]
       ELSE IF ~has_get(requestContext)
       THEN [raised |-> "AttributeError", value |-> PyNone]
       ELSE IF ~has_get(http)
       THEN [raised |-> "AttributeError", value |-> PyNone]
       ELSE [raised |-> "none", value |-> dict_get(http.method, PyNone)]

\* item_id of handle_get: event.get('pathParameters', {}).get('id')
path_item_id(event) ==
    LET pathParameters == dict_get(event.pathParameters, ParamsDict(Absent))
    IN IF ~has_get(pathParameters)
       THEN [raised |-> "AttributeError", value |-> PyNone]
       ELSE [raised |-> "none", value |-> dict_get(pathParameters.id, PyNone)]

----------------------------------------------------------------------------
(* Specification SpecHandler: one invocation of lambda_handler, step by     *)
(* step, on a table holding some items.                                     *)

\* the ids of the items the table may hold
ItemIds == {"a", "b"}

Methods == {Absent, PyNone, Str(""), Str("GET"), Str("POST"), Str("OPTIONS")}

Events ==
    [httpMethod : Methods,
     requestContext : {Absent, PyNone, ContextDict(Absent),
                       ContextDict(PyNone), ContextDict(HttpDict(Absent)),
                       ContextDict(HttpDict(Str("GET"))),
                       ContextDict(HttpDict(Str("POST")))},
     pathParameters : {Absent, PyNone, ParamsDict(Absent),
                       ParamsDict(Str("")), ParamsDict(Str("a"))},
     body : {Absent, PyNone, Str("{bad"), Str("[]"), Str("{}"),
             Str("{\"id\": \"\"}"), Str("{\"id\": \"a\"}"),
             Str("{\"id\": \"b\", \"price\": 1.5}")}]

InitHandler ==
    /\ lam = NoInvocation
    /\ conc = NoConc
    /\ flt = NoFloatRun
    /\ rng = 0 /\ NoRunCall /\ IdleEngine
    /\ rmd_call = NoRmdCall /\ IdleSim /\ IdleMort /\ IdleSamp

\* the invocation ended with the response returned to the caller
Returned(response) ==
    [lam EXCEPT !.pc = "returned", !.response = response]

\* the invocation ended with an exception leaving lambda_handler
Raised(error) == [lam EXCEPT !.pc = "raised", !.error = error]

\* the Lambda service calls lambda_handler(event, context)
Invoke ==
    /\ lam.pc = "idle"
    /\ \E event \in Events, items \in SUBSET ItemIds :
          lam' = [pc |-> "route", event |-> event, table |-> items,
                  item_id |-> PyNone, response |-> PyNone, error |-> "none"]
    /\ UNCHANGED <<lamOthers>>

\* lambda_handler: http_method and the branch on it
Route ==
    /\ lam.pc = "route"
    /\ LET m == http_method(lam.event)
       IN lam' = IF m.raised # "none" THEN Raised(m.raised)
                 ELSE IF m.value = Str("GET")
                 THEN [lam EXCEPT !.pc = "handle_get"]
                 ELSE IF m.value = Str("POST")
                 THEN [lam EXCEPT !.pc = "handle_post"]
                 ELSE Returned(Response(405, "Method not allowed"))
    /\ UNCHANGED <<lamOthers>>

\* handle_get up to the try statement
HandleGet ==
    /\ lam.pc = "handle_get"
    /\ LET i == path_item_id(lam.event)
       IN lam' = IF i.raised # "none" THEN Raised(i.raised)
                 ELSE IF ~truthy(i.value)
                 THEN Returned(Response(400, "Missing id parameter"))
                 ELSE [lam EXCEPT !.pc = "get_item", !.item_id = i.value]
    /\ UNCHANGED <<lamOthers>>

\* handle_get: the try statement, table.get_item succeeding or raising
GetItem ==
    /\ lam.pc = "get_item"
    /\ \E failure \in BOOLEAN :
          lam' = IF failure THEN Returned(Response(500, "str(e)"))
                 ELSE IF lam.item_id.s \in lam.table
                 THEN Returned(Response(200, lam.item_id.s))
                 ELSE Returned(Response(404, "Item not found"))
    /\ UNCHANGED <<lamOthers>>

\* handle_post: the try statement up to table.put_item
HandlePost ==
    /\ lam.pc = "handle_post"
    /\ LET body == json_loads(dict_get(lam.event.body, Str("{}")))
       IN lam' = IF body.kind \in {"TypeError", "JSONDecodeError"}
                 THEN Returned(Response(500, "str(e)"))
                 ELSE IF ~has_get(body)
                 THEN Returned(Response(500, "str(e)"))
                 ELSE IF ~truthy(body.id)
                 THEN Returned(Response(400, "Missing id in request body"))
                 ELSE [lam EXCEPT !.pc = "put_item", !.item_id = body.id]
    /\ UNCHANGED <<lamOthers>>

\* handle_post: table.put_item succeeding or raising, and the return
PutItem ==
    /\ lam.pc = "put_item"
    /\ \E failure \in BOOLEAN :
          lam' = IF failure THEN Returned(Response(500, "str(e)"))
                 ELSE [Returned(Response(201, "Item created"))
                          EXCEPT !.table = @ \cup {lam.item_id.s}]
    /\ UNCHANGED <<lamOthers>>

NextHandler ==
    \/ Invoke
    \/ Route
    \/ HandleGet
    \/ GetItem
    \/ HandlePost
    \/ PutItem

SpecHandler == InitHandler /\ [][NextHandler]_vars

\* C26: lambda_handler returns, for every event (any or missing HTTP method,
\* pathParameters absent, null or present, body absent, null, malformed or
\* valid, any DynamoDB failure), a response object carrying a statusCode and
\* the CORS headers; no exception escapes the handler.
C26_AlwaysResponds ==
    /\ lam.pc # "raised"
    /\ lam.pc = "returned" =>
          /\ lam.response.statusCode \in {200, 201, 400, 404, 405, 500}
          /\ lam.response.headers = CORS_HEADERS

\* whatever is returned is a response with a status code and the CORS headers
ReturnedIsResponse ==
    lam.pc = "returned" =>
        /\ lam.response.statusCode \in {200, 201, 400, 404, 405, 500}
        /\ lam.response.headers = CORS_HEADERS

\* an exception escapes only from the lookups made outside a try statement:
\* a null or non-dictionary requestContext, http or pathParameters
EscapesOnlyFromLookups ==
    lam.pc = "raised" =>
        /\ lam.error = "AttributeError"
        /\ \/ /\ ~truthy(dict_get(lam.event.httpMethod, PyNone))
              /\ \/ lam.event.requestContext = PyNone
                 \/ lam.event.requestContext = ContextDict(PyNone)
           \/ /\ http_method(lam.event).value = Str("GET")
              /\ lam.event.pathParameters = PyNone

====
